---------------------------- MODULE Spec2Model ----------------------------
(***************************************************************************)
(* Model of the cooking-service repository: the Express request handlers   *)
(* of the server module (src/unnamed/part_000), the notification / email   *)
(* module (src/unnamed/part_001) and the mysql2 connection pool they share. *)
(*                                                                         *)
(* The database is a record of tables (sets of rows).  Every db.query of   *)
(* the source is one step that runs on SOME connection of the pool: the    *)
(* pool hands out whichever connection is free, so the connection is a     *)
(* nondeterministic choice.  A connection on which START TRANSACTION ran   *)
(* keeps its writes private (tx[c]) until COMMIT or ROLLBACK reaches that  *)
(* same connection; a connection without an open transaction autocommits.  *)
(* A query may fail (storage fault) wherever the source catches the         *)
(* failure; a query awaited outside every try block is taken to succeed.    *)
(***************************************************************************)
EXTENDS Integers, Sequences, FiniteSets, TLC

(* ------------------------------ bounds -------------------------------- *)
\* connections the pool has opened (the pool allows up to connectionLimit)
NumConns == 2
\* auto-increment ids handed out to inserted rows
MaxId == 2
\* requests in flight at the same time
MaxReqs == 2
\* sendNotification / sendEmailNotification calls in flight at the same time
MaxCalls == 1
\* ban / delete requests the admin issues in a run
MaxAdminReqs == 1

(* ----------------------------- constants ------------------------------ *)
\* SQL NULL / JavaScript null for id-valued columns
NULL == 0
\* a users.email that is NULL or '' (falsy in `user.email`)
NoEmail == ""

Conns == 1..NumConns
Reqs == 1..MaxReqs
Calls == 1..MaxCalls
Tables == {"users", "recipes", "recipe_steps", "recipe_categories",
           "ratings", "reviews", "notifications"}

\* ids of the seeded rows (ids handed out later start above them)
AdminUser == [id |-> 1, login |-> "admin", name |-> "Admin", email |-> "admin@x",
              is_banned |-> FALSE, role |-> "admin"]
Owner == [id |-> 2, login |-> "olga", name |-> "Olga", email |-> "owner@x",
          is_banned |-> FALSE, role |-> "user"]
Guest == [id |-> 3, login |-> "gleb", name |-> "Gleb", email |-> NoEmail,
          is_banned |-> FALSE, role |-> "user"]
SeedUsers == {AdminUser, Owner, Guest}
UserIds == {u.id : u \in SeedUsers}
SeedRecipe == [id |-> 1, user_id |-> Owner.id, title |-> "Borscht"]
\* a recipe whose author was banned: the ban has set its user_id to NULL
AnonRecipe == [id |-> 2, user_id |-> NULL, title |-> "Shchi"]
RecipeIds == {SeedRecipe.id, AnonRecipe.id}
\* req.session.user as the login and register handlers store it
SessionOf(u) == [id |-> u.id, name |-> u.name, role |-> u.role]
\* req.session.user of a visitor who is not logged in
NoSession == [id |-> NULL, name |-> "", role |-> ""]
\* AUTO_INCREMENT continues after the seeded rows
FirstFreeId == Cardinality(SeedUsers) + 1

VARIABLES
    db,        \* committed tables: [Tables -> set of rows]
    tx,        \* per connection: open transaction and its private writes
    nextId,    \* per table: next AUTO_INCREMENT value
    req,       \* requests in flight: [Reqs -> record with h (handler) and pc]
    ret,       \* what the last completed call returned to its caller
    dbSet,     \* part_001: has setDatabaseConnection been called
    created,   \* per user: createNotification calls whose INSERT succeeded
    marked,    \* per user: was markAsRead / markAllAsRead called for them
    observed,  \* what the last page read saw
    adm,       \* the admin's request in flight (ban or delete)
    admCount,  \* admin requests started so far
    sess       \* per user: req.session.user of the user's browser session

vars == <<db, tx, nextId, req, ret, dbSet, created, marked, observed, adm,
          admCount, sess>>

(* ------------------------- pool and storage --------------------------- *)
NoTx == [open |-> FALSE,
         del |-> [t \in Tables |-> {}],
         ins |-> [t \in Tables |-> {}]]

\* what a statement running on connection c reads
View(c) ==
    IF tx[c].open
    THEN [t \in Tables |->
            {r \in db[t] : r.id \notin tx[c].del[t]} \cup tx[c].ins[t]]
    ELSE db

\* a writing statement on connection c that turns what it reads into w
Write(c, w) ==
    LET v == View(c) IN
    IF tx[c].open
    THEN /\ tx' = [tx EXCEPT ![c] =
                [open |-> TRUE,
                 del |-> [t \in Tables |->
                            tx[c].del[t] \cup {r.id : r \in v[t] \ w[t]}],
                 ins |-> [t \in Tables |->
                            (tx[c].ins[t] \ (v[t] \ w[t])) \cup (w[t] \ v[t])]]]
         /\ db' = db
    ELSE /\ db' = w
         /\ tx' = tx

Idle == [h |-> "idle", pc |-> "idle"]
NoRet == [op |-> "none"]

EmptyDb == [t \in Tables |-> {}]
SeedDb == [EmptyDb EXCEPT !["users"] = SeedUsers,
                          !["recipes"] = {SeedRecipe, AnonRecipe},
                          !["recipe_steps"] = {[id |-> 1, recipe_id |-> SeedRecipe.id]},
                          !["recipe_categories"] = {[id |-> 1, recipe_id |-> SeedRecipe.id]}]

Init ==
    /\ db = SeedDb
    /\ tx = [c \in Conns |-> NoTx]
    /\ nextId = [t \in Tables |-> FirstFreeId]
    /\ req = [r \in Reqs |-> Idle]
    /\ ret = NoRet
    /\ dbSet = FALSE
    /\ created = [u \in UserIds |-> 0]
    /\ marked = [u \in UserIds |-> FALSE]
    /\ observed = [op |-> "none"]
    /\ adm = Idle
    /\ admCount = 0
    /\ sess = [u \in UserIds |-> NoSession]

(* ------------------------- notification store ------------------------- *)
\* column default of notifications.is_read
IsReadDefault == FALSE

\* a store that checks no owner
NotificationOwnerAny(v, userId) == TRUE

\* foreign key notifications.user_id -> users.id
NotificationOwnerExists(v, userId) == \E u \in v.users : u.id = userId

\* the same key while the open transaction of another connection has deleted
\* the users row and still locks it: the INSERT waits and times out
OwnerLocked(c, userId) ==
    \E d \in Conns \ {c} : tx[d].open /\ userId \in tx[d].del["users"]

\* the same key seen from users: a users row that a notification refers to,
\* a notification of a transaction still open included, cannot be deleted
UserIsReferenced(c, userId) ==
    \E n \in View(c).notifications
              \cup UNION {tx[d].ins["notifications"] : d \in Conns} :
        n.user_id = userId

NotificationRow(id, userId, text, link) ==
    [id |-> id, user_id |-> userId, text |-> text, link |-> link,
     is_read |-> IsReadDefault]

\* INSERT INTO notifications (user_id, text, link) VALUES (?, ?, ?)
InsertNotification(v, id, userId, text, link) ==
    [v EXCEPT !["notifications"] = @ \cup {NotificationRow(id, userId, text, link)}]

\* a count query that forgets the owner filter
UnreadRowsOfAnyone(v, userId) ==
    {n \in v.notifications : n.is_read = FALSE}

\* SELECT COUNT(*) FROM notifications WHERE user_id = ? AND is_read = FALSE
UnreadRows(v, userId) ==
    {n \in v.notifications : n.user_id = userId /\ n.is_read = FALSE}

\* a bulk update that forgets the owner filter
UpdateAllReadOfAnyone(v, userId) ==
    [v EXCEPT !["notifications"] = {[n EXCEPT !.is_read = TRUE] : n \in @}]

\* UPDATE notifications SET is_read = TRUE WHERE user_id = ? AND is_read = FALSE
UpdateAllRead(v, userId) ==
    [v EXCEPT !["notifications"] =
        {IF n.user_id = userId /\ n.is_read = FALSE
            THEN [n EXCEPT !.is_read = TRUE] ELSE n : n \in @}]

\* an update that forgets the owner filter
UpdateReadOfAnyone(v, notificationId, userId) ==
    [v EXCEPT !["notifications"] =
        {IF n.id = notificationId
            THEN [n EXCEPT !.is_read = TRUE] ELSE n : n \in @}]

\* UPDATE notifications SET is_read = TRUE WHERE id = ? AND user_id = ?
UpdateRead(v, notificationId, userId) ==
    [v EXCEPT !["notifications"] =
        {IF n.id = notificationId /\ n.user_id = userId
            THEN [n EXCEPT !.is_read = TRUE] ELSE n : n \in @}]

\* texts handlers pass to the store directly
PlainTexts == {<<"note">>}
NoLink == <<>>

\* the table can still hand out an id (bounds the rows ever inserted)
HasFreeId(t) == nextId[t] < FirstFreeId + MaxId

\* async function createNotification(userId, text, link = null): the INSERT
\* on connection c; an error (storage fault, no such owner) is logged and
\* swallowed
createNotification(c, fault, userId, text, link) ==
    IF ~fault /\ NotificationOwnerExists(View(c), userId) /\ ~OwnerLocked(c, userId)
    THEN /\ HasFreeId("notifications")
         /\ Write(c, InsertNotification(View(c), nextId["notifications"],
                                        userId, text, link))
         /\ nextId' = [nextId EXCEPT !["notifications"] = @ + 1]
         /\ created' = [created EXCEPT ![userId] = @ + 1]
    ELSE UNCHANGED <<db, tx, nextId, created>>

\* async function getUnreadCount(userId): result.count, or 0 from the catch
getUnreadCount(c, fault, userId) ==
    IF fault THEN 0 ELSE Cardinality(UnreadRows(View(c), userId))

\* async function markAsRead(notificationId, userId)
markAsRead(c, fault, notificationId, userId) ==
    IF fault THEN UNCHANGED <<db, tx>>
    ELSE Write(c, UpdateRead(View(c), notificationId, userId))

\* async function markAllAsRead(userId)
markAllAsRead(c, fault, userId) ==
    IF fault THEN UNCHANGED <<db, tx>>
    ELSE Write(c, UpdateAllRead(View(c), userId))


\* a handler awaits createNotification(...)
CallCreateNotification ==
    \E c \in Conns, fault \in BOOLEAN, userId \in UserIds, text \in PlainTexts :
        /\ createNotification(c, fault, userId, text, NoLink)
        /\ ret' = [op |-> "createNotification", user |-> userId, logged |-> fault]
        /\ UNCHANGED <<req, dbSet, marked, observed, sess, adm, admCount>>

\* GET /api/notifications/count and the locals middleware: getUnreadCount
CallGetUnreadCount ==
    \E c \in Conns, fault \in BOOLEAN, userId \in UserIds :
        /\ ret' = [op |-> "getUnreadCount", user |-> userId, logged |-> fault,
                   value |-> getUnreadCount(c, fault, userId)]
        /\ UNCHANGED <<db, tx, nextId, req, dbSet, created, marked, observed, sess, adm, admCount>>

\* POST /notifications/:id/read
CallMarkAsRead ==
    \E c \in Conns, fault \in BOOLEAN, userId \in UserIds,
       notificationId \in FirstFreeId..(FirstFreeId + MaxId) :
        /\ markAsRead(c, fault, notificationId, userId)
        /\ marked' = [marked EXCEPT ![userId] = TRUE]
        /\ ret' = [op |-> "markAsRead", user |-> userId, logged |-> fault,
                   id |-> notificationId]
        /\ UNCHANGED <<nextId, req, dbSet, created, observed, sess, adm, admCount>>

\* POST /notifications/read-all
CallMarkAllAsRead ==
    \E c \in Conns, fault \in BOOLEAN, userId \in UserIds :
        /\ markAllAsRead(c, fault, userId)
        /\ marked' = [marked EXCEPT ![userId] = TRUE]
        /\ ret' = [op |-> "markAllAsRead", user |-> userId, logged |-> fault]
        /\ UNCHANGED <<nextId, req, dbSet, created, observed, sess, adm, admCount>>

NextStore ==
    \/ CallCreateNotification
    \/ CallGetUnreadCount
    \/ CallMarkAsRead
    \/ CallMarkAllAsRead

SpecStore == Init /\ [][NextStore]_vars

(* ------------------- part_001: email and sendNotification ------------- *)
\* export const EmailTypes
EmailTypes == {"NEW_RATING", "NEW_REVIEW", "ADMIN_BAN", "ADMIN_UNBAN",
               "ADMIN_ACTION", "RECIPE_UPDATED", "WELCOME"}

\* a property the event data does not carry
Undefined == "undefined"
Field(data, f) == IF f \in DOMAIN data THEN data[f] ELSE Undefined

\* a || b on strings: b when a is undefined or empty
OrElse(a, b) == IF a = Undefined \/ a = "" THEN b ELSE a

\* markup is a sequence of pieces, each a tag or a text
Tag(s) == <<"tag", s>>
Txt(s) == <<"text", s>>
IsTag(piece) == piece[1] = "tag"
\* content.replace(/<[^>]*>/g, '')
StripTags(content) == SelectSeq(content, LAMBDA piece : ~IsTag(piece))
Contains(text, s) == \E i \in DOMAIN text : text[i] = s
ContainsText(content, s) == \E i \in DOMAIN content : content[i] = Txt(s)

\* const emailTemplate = (content) => ...
emailTemplate(content) ==
    <<Tag("<html>"), Tag("<div class=header>"), Txt("Cooking site")>>
        \o content
        \o <<Tag("<div class=footer>"), Txt("You are subscribed"), Tag("</html>")>>

\* export function generateEmailContent(type, data)
generateEmailContent(type, data) ==
    CASE type = "NEW_RATING" ->
            <<Tag("<h3>"), Txt("New rating of your recipe"), Tag("<strong>"),
              Txt(Field(data, "userName")), Txt("rated your recipe"),
              Txt(Field(data, "recipeTitle")), Txt("at"),
              Txt(Field(data, "rating")), Txt("of 5"),
              Tag(Field(data, "link")), Txt("See the recipe")>>
      [] type = "NEW_REVIEW" ->
            <<Tag("<h3>"), Txt("New review of your recipe"), Tag("<strong>"),
              Txt(Field(data, "userName")), Txt("reviewed your recipe"),
              Txt(Field(data, "recipeTitle")), Tag("<blockquote>"),
              Txt(Field(data, "reviewText")),
              Tag(Field(data, "link")), Txt("See all reviews")>>
      [] type = "ADMIN_BAN" ->
            <<Tag("<h3>"), Txt("Your account was blocked"), Txt("Reason:"),
              Txt(OrElse(Field(data, "reason"), "not given"))>>
      [] type = "ADMIN_UNBAN" ->
            <<Tag("<h3>"), Txt("Your account is unblocked")>>
      [] type = "WELCOME" ->
            <<Tag("<h3>"), Txt("Welcome"), Txt(Field(data, "userName"))>>
      [] OTHER ->
            <<Tag("<h3>"), Txt("New notification"),
              Txt(OrElse(Field(data, "message"), "You have a new notification"))>>
            \o (IF OrElse(Field(data, "link"), "") = "" THEN <<>>
                ELSE <<Tag(Field(data, "link")), Txt("More")>>)

\* a subject table that answers the generic subject for every type
getEmailSubjectGeneric(type) == "New notification from the cooking site"

\* function getEmailSubject(type)
getEmailSubject(type) ==
    CASE type = "NEW_RATING" -> "New rating of your recipe"
      [] type = "NEW_REVIEW" -> "New review of your recipe"
      [] type = "ADMIN_BAN" -> "Your account is blocked"
      [] type = "ADMIN_UNBAN" -> "Your account is unblocked"
      [] type = "WELCOME" -> "Welcome to the cooking site"
      [] OTHER -> "New notification from the cooking site"

\* the switch of sendNotification that builds the in-app text
notificationText(type, data) ==
    CASE type = "NEW_RATING" ->
            <<"User", Field(data, "userName"), "rated your recipe",
              Field(data, "recipeTitle"), "at", Field(data, "rating"), "star">>
      [] type = "NEW_REVIEW" ->
            <<"User", Field(data, "userName"), "reviewed your recipe",
              Field(data, "recipeTitle")>>
      [] type = "ADMIN_BAN" ->
            <<"Your account is blocked by the administrator. Reason:",
              OrElse(Field(data, "reason"), "not given")>>
      [] type = "ADMIN_UNBAN" ->
            <<"Your account is unblocked by the administrator">>
      [] OTHER -> <<OrElse(Field(data, "message"), "New notification")>>

\* let notificationLink = data.link || null
notificationLink(data) ==
    IF OrElse(Field(data, "link"), "") = "" THEN <<>> ELSE <<Field(data, "link")>>

\* const mailOptions = { from, to, subject, text, html }
mailOptions(to, subject, content) ==
    [to |-> to, subject |-> subject, text |-> StripTags(content),
     html |-> emailTemplate(content)]

\* the events callers pass: (type, data) per the payload shapes
Events ==
    {[type |-> "NEW_RATING",
      data |-> [userName |-> "Alice", recipeTitle |-> "Borscht",
                rating |-> ToString(5), link |-> "/recipes/42"]],
     [type |-> "ADMIN_BAN", data |-> [reason |-> "spam"]]}

\* no mail handed to the transport
NoMail == [to |-> NoEmail]

\* the [[user]] of the lookup when no row matches
NoUser == [id |-> NULL, email |-> NoEmail]

\* export function setDatabaseConnection(database)
SetDatabaseConnection ==
    /\ dbSet' = TRUE
    /\ ret' = NoRet
    /\ UNCHANGED <<db, tx, nextId, req, created, marked, observed, sess, adm, admCount>>

\* a caller invokes sendNotification(userId, type, data, sendEmail)
StartSendNotification(r) ==
    /\ req[r] = Idle
    /\ \E userId \in {Owner.id, Guest.id, NULL}, ev \in Events,
            sendEmail \in BOOLEAN :
         req' = [req EXCEPT ![r] =
            [h |-> "sendNotification", pc |-> "lookup", userId |-> userId,
             type |-> ev.type, data |-> ev.data, sendEmail |-> sendEmail,
             user |-> NoUser, rows |-> {}, sends |-> 0, mail |-> NoMail,
             sent |-> FALSE]]
    /\ ret' = NoRet
    /\ UNCHANGED <<db, tx, nextId, dbSet, created, marked, observed, sess, adm, admCount>>

\* what a finished call hands back: the request's locals plus the outcome
Returned(q, raised, value) ==
    [op |-> q.h, raised |-> raised, value |-> value, userId |-> q.userId,
     type |-> q.type, data |-> q.data, sendEmail |-> q.sendEmail,
     user |-> q.user, rows |-> q.rows, sends |-> q.sends, mail |-> q.mail,
     sent |-> q.sent]

\* a catch block that lets the error escape to the caller
Rethrow(q) == Returned(q, TRUE, FALSE)

\* } catch (error) { console.error(...); return false; }
sendNotificationCatch(q) == Returned(q, FALSE, FALSE)

\* 1. SELECT email, name FROM users WHERE id = ?  (db undefined: TypeError)
sendNotificationLookup(r) ==
    /\ req[r].h = "sendNotification" /\ req[r].pc = "lookup"
    /\ \E c \in Conns, fault \in BOOLEAN :
        LET q == req[r]
            found == {u \in View(c).users : u.id = q.userId}
        IN  IF ~dbSet \/ fault
            THEN /\ ret' = sendNotificationCatch(q)
                 /\ req' = [req EXCEPT ![r] = Idle]
            ELSE IF found = {}
            THEN /\ ret' = Returned(q, FALSE, FALSE)
                 /\ req' = [req EXCEPT ![r] = Idle]
            ELSE /\ ret' = NoRet
                 /\ req' = [req EXCEPT ![r] =
                        [q EXCEPT !.pc = "insert",
                                  !.user = CHOOSE u \in found : TRUE]]
    /\ UNCHANGED <<db, tx, nextId, dbSet, created, marked, observed, sess, adm, admCount>>

\* an INSERT whose failure is swallowed, the call going on to the email
AfterInsertSwallowing(q, ok, id) ==
    [q EXCEPT !.pc = IF q.sendEmail /\ q.user.email # NoEmail
                        THEN "email" ELSE "return",
              !.rows = IF ok THEN @ \cup {id} ELSE @]

\* where the call stands after the awaited INSERT: on to step 3 when it
\* succeeded, into the catch when it threw
AfterInsert(q, ok, id) ==
    IF ok
    THEN [q EXCEPT !.pc = IF q.sendEmail /\ q.user.email # NoEmail
                            THEN "email" ELSE "return",
                   !.rows = @ \cup {id}]
    ELSE [q EXCEPT !.pc = "catch"]

\* 2. INSERT INTO notifications (user_id, text, link) VALUES (?, ?, ?)
sendNotificationInsert(r) ==
    /\ req[r].h = "sendNotification" /\ req[r].pc = "insert"
    /\ \E c \in Conns, fault \in BOOLEAN :
        LET q == req[r]
            ok == /\ ~fault /\ NotificationOwnerExists(View(c), q.userId)
                  /\ ~OwnerLocked(c, q.userId)
            id == nextId["notifications"]
        IN  /\ IF ok
               THEN /\ HasFreeId("notifications")
                    /\ Write(c, InsertNotification(View(c), id, q.userId,
                                    notificationText(q.type, q.data),
                                    notificationLink(q.data)))
                    /\ nextId' = [nextId EXCEPT !["notifications"] = @ + 1]
               ELSE UNCHANGED <<db, tx, nextId>>
            /\ req' = [req EXCEPT ![r] = AfterInsert(q, ok, id)]
    /\ ret' = NoRet
    /\ UNCHANGED <<dbSet, created, marked, observed, sess, adm, admCount>>

\* a caller invokes sendEmailNotification(to, subject, content) directly
StartSendEmailNotification(r) ==
    /\ req[r] = Idle
    /\ \E to \in {"owner@x", NoEmail}, ev \in Events :
         req' = [req EXCEPT ![r] =
            [h |-> "sendEmailNotification", pc |-> "email", userId |-> NULL,
             type |-> ev.type, data |-> ev.data, sendEmail |-> TRUE,
             user |-> [id |-> NULL, email |-> to], rows |-> {}, sends |-> 0,
             mail |-> NoMail, sent |-> FALSE]]
    /\ ret' = NoRet
    /\ UNCHANGED <<db, tx, nextId, dbSet, created, marked, observed, sess, adm, admCount>>

\* sendEmailNotification up to its await: the parameter check, mailOptions,
\* transporter.sendMail(mailOptions)
sendEmailNotificationIssue(r) ==
    /\ req[r].pc = "email"
    /\ LET q == req[r]
           to == q.user.email
           subject == getEmailSubject(q.type)
           content == generateEmailContent(q.type, q.data)
       IN  IF to = NoEmail \/ subject = "" \/ content = <<>>
           THEN req' = [req EXCEPT ![r] = [q EXCEPT !.pc = "mailed"]]
           ELSE req' = [req EXCEPT ![r] =
                    [q EXCEPT !.pc = "mailing", !.sends = @ + 1,
                              !.mail = mailOptions(to, subject, content)]]
    /\ ret' = NoRet
    /\ UNCHANGED <<db, tx, nextId, dbSet, created, marked, observed, sess, adm, admCount>>

\* a send failure handled by taking back the notification written before
SettleUndoingOnFailure(q, accepted) ==
    db' = IF accepted THEN db
          ELSE [db EXCEPT !["notifications"] = {n \in @ : n.id \notin q.rows}]

\* the transport settles the awaited sendMail: resolve (return true) or
\* reject (catch: log, return false); the database is not touched
Settle(q, accepted) ==
    db' = db

sendEmailNotificationSettle(r) ==
    /\ req[r].pc = "mailing"
    /\ \E accepted \in BOOLEAN :
        /\ Settle(req[r], accepted)
        /\ req' = [req EXCEPT ![r] = [@ EXCEPT !.pc = "mailed", !.sent = accepted]]
    /\ ret' = NoRet
    /\ UNCHANGED <<tx, nextId, dbSet, created, marked, observed, sess, adm, admCount>>

\* sendEmailNotification returns emailSent to whoever awaited it
sendEmailNotificationReturn(r) ==
    /\ req[r].pc = "mailed"
    /\ IF req[r].h = "sendNotification"
       THEN /\ req' = [req EXCEPT ![r] = [@ EXCEPT !.pc = "return"]]
            /\ ret' = NoRet
       ELSE /\ req' = [req EXCEPT ![r] = Idle]
            /\ ret' = Returned(req[r], FALSE, req[r].sent)
    /\ UNCHANGED <<db, tx, nextId, dbSet, created, marked, observed, sess, adm, admCount>>

\* return true;  or the catch block after a throw inside the try
sendNotificationReturn(r) ==
    /\ req[r].h = "sendNotification" /\ req[r].pc \in {"return", "catch"}
    /\ ret' = IF req[r].pc = "return" THEN Returned(req[r], FALSE, TRUE)
              ELSE sendNotificationCatch(req[r])
    /\ req' = [req EXCEPT ![r] = Idle]
    /\ UNCHANGED <<db, tx, nextId, dbSet, created, marked, observed, sess, adm, admCount>>

NextNotify ==
    \/ SetDatabaseConnection
    \/ \E r \in Calls : StartSendNotification(r)
    \/ \E r \in Calls : sendNotificationLookup(r)
    \/ \E r \in Calls : sendNotificationInsert(r)
    \/ \E r \in Calls : StartSendEmailNotification(r)
    \/ \E r \in Calls : sendEmailNotificationIssue(r)
    \/ \E r \in Calls : sendEmailNotificationSettle(r)
    \/ \E r \in Calls : sendEmailNotificationReturn(r)
    \/ \E r \in Calls : sendNotificationReturn(r)

SpecNotify == Init /\ [][NextNotify]_vars

\* the steps of call r that the event loop runs as soon as they are ready:
\* everything but the start of a call and the transport's answer
Running(r) ==
    \/ sendNotificationLookup(r)
    \/ sendNotificationInsert(r)
    \/ sendEmailNotificationIssue(r)
    \/ sendEmailNotificationReturn(r)
    \/ sendNotificationReturn(r)

\* the same calls under a scheduler that runs every ready continuation and
\* a database that answers; the transport answers when it pleases, or never:
\* createTransport sets no timeout and sendMail is awaited as it is
SpecNotifyLive ==
    Init /\ [][NextNotify]_vars /\ \A r \in Calls : WF_vars(Running(r))

(* --------------------- POST /recipes/:id/rating ----------------------- *)
\* the sessions rating requests come with: the recipe's author and a reader
Sessions == {SessionOf(Owner), SessionOf(Guest)}
\* req.body.rating
Ratings == {5}
\* the [[recipe]] of the lookup when no row matches
NoRecipe == [id |-> NULL, user_id |-> NULL, title |-> ""]

\* unique key ratings (recipe_id, user_id)
RatingIsDuplicate(v, recipeId, userId) ==
    \E x \in v.ratings : x.recipe_id = recipeId /\ x.user_id = userId

\* an INSERT that stores nothing
InsertRatingNowhere(v, id, recipeId, userId, rating) == v

\* INSERT INTO ratings (recipe_id, user_id, rating) VALUES (?, ?, ?)
InsertRating(v, id, recipeId, userId, rating) ==
    [v EXCEPT !["ratings"] = @ \cup
        {[id |-> id, recipe_id |-> recipeId, user_id |-> userId,
          rating |-> rating]}]

\* the text and the link the handler hands to createNotification
ratingText(user, recipe, rating) ==
    <<"User", user.name, "rated your recipe", recipe.title, "at",
      ToString(rating), "star">>
ratingLink(recipeId) == <<"/recipes/", ToString(recipeId)>>

\* a handler that lets every rater through
IsOwnRecipeNever(recipe, user) == FALSE

\* if (recipe.user_id === user.id)
IsOwnRecipe(recipe, user) == recipe.user_id = user.id

\* a catch that falls through to the redirect
ratingCatchRedirecting(q) == "302 redirect"

\* catch (err) { return res.status(400).send(...) }
ratingCatch(q) == "400 already rated"

\* the handler of slot r answers (or its promise rejects) and the slot frees
RatingRespond(r, q, status) ==
    /\ req' = [req EXCEPT ![r] = Idle]
    /\ ret' = [op |-> "rating", status |-> status, user |-> q.user.id,
               recipeId |-> q.recipeId]

\* the request arrives: if (!user) return res.status(403)
StartRating(r) ==
    /\ req[r] = Idle
    /\ \E user \in Sessions \cup {NoSession},
          recipeId \in RecipeIds \cup {NULL}, rating \in Ratings :
        LET q == [h |-> "rating", pc |-> "select", user |-> user,
                  recipeId |-> recipeId, rating |-> rating,
                  recipe |-> NoRecipe]
        IN  IF user = NoSession
            THEN RatingRespond(r, q, "403 login")
            ELSE /\ req' = [req EXCEPT ![r] = q]
                 /\ ret' = NoRet
    /\ UNCHANGED <<db, tx, nextId, dbSet, created, marked, observed, sess, adm, admCount>>

\* SELECT user_id, title FROM recipes WHERE id = ? and the owner check; the
\* await sits outside the try, so the TypeError of recipe.user_id on no row
\* rejects the handler's promise
RatingSelect(r) ==
    /\ req[r].h = "rating" /\ req[r].pc = "select"
    /\ \E c \in Conns :
        LET q == req[r]
            rows == {x \in View(c).recipes : x.id = q.recipeId}
        IN  IF rows = {}
            THEN RatingRespond(r, q, "unhandled rejection")
            ELSE LET recipe == CHOOSE x \in rows : TRUE
                     q2 == [q EXCEPT !.recipe = recipe]
                 IN  IF IsOwnRecipe(recipe, q.user)
                     THEN RatingRespond(r, q2, "403 own recipe")
                     ELSE /\ req' = [req EXCEPT ![r] = [q2 EXCEPT !.pc = "insert"]]
                          /\ ret' = NoRet
    /\ UNCHANGED <<db, tx, nextId, dbSet, created, marked, observed, sess, adm, admCount>>

\* await db.query("INSERT INTO ratings ...") inside the try
RatingInsert(r) ==
    /\ req[r].h = "rating" /\ req[r].pc = "insert"
    /\ \E c \in Conns, fault \in BOOLEAN :
        LET q == req[r]
            v == View(c)
            id == nextId["ratings"]
            ok == ~fault /\ ~RatingIsDuplicate(v, q.recipeId, q.user.id)
        IN  IF ok
            THEN /\ HasFreeId("ratings")
                 /\ Write(c, InsertRating(v, id, q.recipeId, q.user.id, q.rating))
                 /\ nextId' = [nextId EXCEPT !["ratings"] = @ + 1]
                 /\ req' = [req EXCEPT ![r] =
                                [q EXCEPT !.pc = "notify"]]
                 /\ ret' = NoRet
            ELSE /\ RatingRespond(r, q, ratingCatch(q))
                 /\ UNCHANGED <<db, tx, nextId>>
    /\ UNCHANGED <<dbSet, created, marked, observed, sess, adm, admCount>>

\* await createNotification(recipe.user_id, ...) and res.redirect
RatingNotify(r) ==
    /\ req[r].h = "rating" /\ req[r].pc = "notify"
    /\ \E c \in Conns, fault \in BOOLEAN :
        LET q == req[r]
            ownerId == q.recipe.user_id
        IN  /\ createNotification(c, fault, ownerId,
                                  ratingText(q.user, q.recipe, q.rating),
                                  ratingLink(q.recipeId))
            /\ RatingRespond(r, q, "302 redirect")
    /\ UNCHANGED <<dbSet, marked, observed, sess, adm, admCount>>

(* --------------------- POST /admin/users/ban/:id ---------------------- *)
\* UPDATE users SET is_banned = TRUE, ... WHERE id = ?
BanUser(v, userId) ==
    [v EXCEPT !["users"] =
        {IF u.id = userId THEN [u EXCEPT !.is_banned = TRUE] ELSE u : u \in @}]

\* UPDATE recipes SET user_id = NULL WHERE user_id = ?
AnonymizeRecipes(v, userId) ==
    [v EXCEPT !["recipes"] =
        {IF x.user_id = userId THEN [x EXCEPT !.user_id = NULL] ELSE x : x \in @}]

\* a ban that leaves the user's ratings in place
DeleteRatingsByNobody(v, userId) == v

\* DELETE FROM ratings WHERE user_id = ?
DeleteRatingsBy(v, userId) ==
    [v EXCEPT !["ratings"] = {x \in @ : x.user_id # userId}]

\* UPDATE reviews SET user_id = NULL WHERE user_id = ?
AnonymizeReviews(v, userId) ==
    [v EXCEPT !["reviews"] =
        {IF x.user_id = userId THEN [x EXCEPT !.user_id = NULL] ELSE x : x \in @}]

\* the four statements of the try block, in order
BanSteps == <<"banUser", "anonRecipes", "delRatings", "anonReviews">>
BanStatement(k, v, userId) ==
    CASE BanSteps[k] = "banUser" -> BanUser(v, userId)
      [] BanSteps[k] = "anonRecipes" -> AnonymizeRecipes(v, userId)
      [] BanSteps[k] = "delRatings" -> DeleteRatingsBy(v, userId)
      [] BanSteps[k] = "anonReviews" -> AnonymizeReviews(v, userId)

\* the admin's handler renders admin_users (or its promise rejects)
AdminRespond(status) ==
    /\ adm' = Idle
    /\ ret' = [op |-> adm.h, status |-> status, target |-> adm.target,
               pre |-> adm.pre]

\* a handler that lets the admin act on their own account
IsOwnAccountNever(userId) == FALSE

\* req.session.user.id == userId, for the session of the admin
IsOwnAccount(userId) == AdminUser.id = userId

\* requireAdmin passed; if (req.session.user.id == userId) refuse
StartBan ==
    /\ adm = Idle
    /\ admCount < MaxAdminReqs
    /\ admCount' = admCount + 1
    /\ \E target \in UserIds :
        adm' = [h |-> "ban", target |-> target, k |-> 1, pre |-> db,
                pc |-> IF IsOwnAccount(target) THEN "refuse" ELSE "statement"]
    /\ ret' = NoRet
    /\ UNCHANGED <<db, tx, nextId, req, dbSet, created, marked, observed, sess>>

\* the self-ban branch: SELECT * FROM users, outside any try
BanRefuse ==
    /\ adm.h = "ban" /\ adm.pc = "refuse"
    /\ AdminRespond("refused")
    /\ UNCHANGED <<db, tx, nextId, req, dbSet, created, marked, observed, sess, admCount>>

\* one awaited statement of the try block; an error jumps to the catch
BanStep ==
    /\ adm.h = "ban" /\ adm.pc = "statement"
    /\ \E c \in Conns, fault \in BOOLEAN :
        IF fault
        THEN /\ adm' = [adm EXCEPT !.pc = "catch"]
             /\ UNCHANGED <<db, tx>>
        ELSE /\ Write(c, BanStatement(adm.k, View(c), adm.target))
             /\ adm' = IF adm.k = Len(BanSteps)
                       THEN [adm EXCEPT !.pc = "list"]
                       ELSE [adm EXCEPT !.k = @ + 1]
    /\ ret' = NoRet
    /\ UNCHANGED <<nextId, req, dbSet, created, marked, observed, sess, admCount>>

\* SELECT * FROM users at the end of the try, then the success page
BanList ==
    /\ adm.h = "ban" /\ adm.pc = "list"
    /\ \E fault \in BOOLEAN :
        IF fault
        THEN adm' = [adm EXCEPT !.pc = "catch"] /\ ret' = NoRet
        ELSE AdminRespond("banned")
    /\ UNCHANGED <<db, tx, nextId, req, dbSet, created, marked, observed, sess, admCount>>

\* catch (err): SELECT * FROM users, then the error page
BanCatch ==
    /\ adm.h = "ban" /\ adm.pc = "catch"
    /\ AdminRespond("error")
    /\ UNCHANGED <<db, tx, nextId, req, dbSet, created, marked, observed, sess, admCount>>

(* ---------------------- POST /recipes/:id/review ---------------------- *)
\* req.body.author_name as a column value: <<name>>, or <<>> for NULL (the
\* field left out of the form); the handler does not look at the value
NullName == <<>>
AuthorNames == {<<"Anna">>, <<"">>, NullName}

\* const authorName = user ? null : req.body.author_name
authorName(user, body) == IF user # NoSession THEN NullName ELSE body

\* const reviewerName = user ? user.name : authorName
reviewerName(user, body) == IF user # NoSession THEN <<user.name>> ELSE body

\* INSERT INTO reviews (recipe_id, user_id, author_name, text, parent_id)
InsertReview(v, id, recipeId, userId, name) ==
    [v EXCEPT !["reviews"] = @ \cup
        {[id |-> id, recipe_id |-> recipeId, user_id |-> userId,
          author_name |-> name]}]

\* the text and the link the handler hands to createNotification
reviewText(name, recipe) ==
    <<"User">> \o name \o <<"left a review on your recipe", recipe.title>>
reviewLink(recipeId) == <<"/recipes/", ToString(recipeId)>>

\* a handler that notifies the owner of every review
ReviewNotifiesAlways(recipe, user) == TRUE

\* if (recipe.user_id !== (user ? user.id : null))
ReviewNotifies(recipe, user) == recipe.user_id # user.id

\* res.json({ success: true, ... }) or the catch's res.status(500).json
ReviewRespond(r, q, status) ==
    /\ req' = [req EXCEPT ![r] = Idle]
    /\ ret' = [op |-> "review", status |-> status, user |-> q.user.id,
               recipeId |-> q.recipeId, reviewId |-> q.reviewId]

\* the request arrives; the route has no requireAuth
StartReview(r) ==
    /\ req[r] = Idle
    /\ \E user \in Sessions \cup {NoSession}, recipeId \in RecipeIds,
          body \in AuthorNames :
        req' = [req EXCEPT ![r] =
                   [h |-> "review", pc |-> "select", user |-> user,
                    recipeId |-> recipeId, body |-> body,
                    recipe |-> NoRecipe, reviewId |-> NULL]]
    /\ ret' = NoRet
    /\ UNCHANGED <<db, tx, nextId, dbSet, created, marked, observed, sess, adm, admCount>>

\* const [[recipe]] = await db.query("SELECT user_id, title FROM recipes ...")
ReviewSelect(r) ==
    /\ req[r].h = "review" /\ req[r].pc = "select"
    /\ \E c \in Conns, fault \in BOOLEAN :
        LET q == req[r]
            rows == {x \in View(c).recipes : x.id = q.recipeId}
        IN  IF fault \/ rows = {}
            THEN ReviewRespond(r, q, "500 error")
            ELSE /\ req' = [req EXCEPT ![r] =
                               [q EXCEPT !.recipe = CHOOSE x \in rows : TRUE,
                                         !.pc = "insert"]]
                 /\ ret' = NoRet
    /\ UNCHANGED <<db, tx, nextId, dbSet, created, marked, observed, sess, adm, admCount>>

\* const [result] = await db.query("INSERT INTO reviews ...")
ReviewInsert(r) ==
    /\ req[r].h = "review" /\ req[r].pc = "insert"
    /\ \E c \in Conns, fault \in BOOLEAN :
        LET q == req[r]
            id == nextId["reviews"]
        IN  IF fault
            THEN /\ ReviewRespond(r, q, "500 error")
                 /\ UNCHANGED <<db, tx, nextId>>
            ELSE /\ HasFreeId("reviews")
                 /\ Write(c, InsertReview(View(c), id, q.recipeId, q.user.id,
                                          authorName(q.user, q.body)))
                 /\ nextId' = [nextId EXCEPT !["reviews"] = @ + 1]
                 /\ req' = [req EXCEPT ![r] =
                               [q EXCEPT !.reviewId = id, !.pc = "selectNew"]]
                 /\ ret' = NoRet
    /\ UNCHANGED <<dbSet, created, marked, observed, sess, adm, admCount>>

\* const [[newReview]] = await db.query("SELECT r.*, u.name ..."); when the
\* reviewer is the owner no further await follows and the answer is sent
ReviewSelectNew(r) ==
    /\ req[r].h = "review" /\ req[r].pc = "selectNew"
    /\ \E c \in Conns, fault \in BOOLEAN :
        LET q == req[r]
            rows == {x \in View(c).reviews : x.id = q.reviewId}
        IN  IF fault
            THEN ReviewRespond(r, q, "500 error")
            ELSE IF ReviewNotifies(q.recipe, q.user)
            THEN /\ req' = [req EXCEPT ![r] =
                               [q EXCEPT !.pc = IF rows = {} THEN "notifyLost"
                                                ELSE "notify"]]
                 /\ ret' = NoRet
            ELSE ReviewRespond(r, q, IF rows = {} THEN "500 error"
                                     ELSE "200 success")
    /\ UNCHANGED <<db, tx, nextId, dbSet, created, marked, observed, sess, adm, admCount>>

\* await createNotification(recipe.user_id, ...) and res.json; newReview.id
\* throws into the catch when the new row was not found
ReviewNotify(r) ==
    /\ req[r].h = "review" /\ req[r].pc \in {"notify", "notifyLost"}
    /\ \E c \in Conns, fault \in BOOLEAN :
        LET q == req[r]
        IN  /\ createNotification(c, fault, q.recipe.user_id,
                                  reviewText(reviewerName(q.user, q.body), q.recipe),
                                  reviewLink(q.recipeId))
            /\ ReviewRespond(r, q, IF q.pc = "notify" THEN "200 success"
                                   ELSE "500 error")
    /\ UNCHANGED <<dbSet, marked, observed, sess, adm, admCount>>

(* ------------------------ POST /recipes/create ------------------------ *)
\* req.body.title, req.body.category_id and req.body.step_texts
Titles == {"Kasha"}
CategoryIds == {NULL, 1}
StepTexts == {<<>>, <<" ", "Stir">>}

\* !steps[i].trim()
IsBlank(s) == s \in {"", " "}

\* the first index after i whose step the loop inserts, 0 when none is left
NextStep(steps, i) ==
    LET rest == {j \in (i + 1)..Len(steps) : ~IsBlank(steps[j])}
    IN  IF rest = {} THEN 0 ELSE CHOOSE j \in rest : \A k \in rest : j <= k

\* INSERT INTO recipes (user_id, title, ...) VALUES (?, ?, ...)
InsertRecipe(v, id, userId, title) ==
    [v EXCEPT !["recipes"] = @ \cup
        {[id |-> id, user_id |-> userId, title |-> title]}]

\* INSERT INTO recipe_categories (recipe_id, category_id) VALUES (?, ?)
InsertRecipeCategory(v, id, recipeId) ==
    [v EXCEPT !["recipe_categories"] = @ \cup {[id |-> id, recipe_id |-> recipeId]}]

\* INSERT INTO recipe_steps (recipe_id, step_number, text, image)
InsertRecipeStep(v, id, recipeId) ==
    [v EXCEPT !["recipe_steps"] = @ \cup {[id |-> id, recipe_id |-> recipeId]}]

\* the text and the link the handler hands to createNotification
createText(title) == <<"You created a new recipe", title>>
createLink(recipeId) == <<"/recipes/", ToString(recipeId)>>

\* res.redirect(`/recipes/${recipeId}`) or the catch's res.send
CreateRespond(r, q, status) ==
    /\ req' = [req EXCEPT ![r] = Idle]
    /\ ret' = [op |-> "create", status |-> status, user |-> q.user.id,
               recipeId |-> q.recipeId]

\* the position after the statement at pc: the category insert, the next
\* step of the loop, or the notification
CreateAfter(q, pc, i) ==
    IF pc = "insert" /\ q.category_id # NULL THEN [q EXCEPT !.pc = "category"]
    ELSE IF NextStep(q.step_texts, i) # 0
    THEN [q EXCEPT !.pc = "step", !.i = NextStep(q.step_texts, i)]
    ELSE [q EXCEPT !.pc = "notify"]

\* requireAuth let the request through: the session holds a user
StartCreate(r) ==
    /\ req[r] = Idle
    /\ \E user \in Sessions, title \in Titles, category_id \in CategoryIds,
          step_texts \in StepTexts :
        req' = [req EXCEPT ![r] =
                   [h |-> "create", pc |-> "insert", user |-> user,
                    title |-> title, category_id |-> category_id,
                    step_texts |-> step_texts, i |-> 0, recipeId |-> NULL]]
    /\ ret' = NoRet
    /\ UNCHANGED <<db, tx, nextId, dbSet, created, marked, observed, sess, adm, admCount>>

\* const [result] = await db.query("INSERT INTO recipes ...")
CreateInsert(r) ==
    /\ req[r].h = "create" /\ req[r].pc = "insert"
    /\ \E c \in Conns, fault \in BOOLEAN :
        LET q == req[r]
            id == nextId["recipes"]
        IN  IF fault
            THEN /\ CreateRespond(r, q, "error")
                 /\ UNCHANGED <<db, tx, nextId>>
            ELSE /\ HasFreeId("recipes")
                 /\ Write(c, InsertRecipe(View(c), id, q.user.id, q.title))
                 /\ nextId' = [nextId EXCEPT !["recipes"] = @ + 1]
                 /\ req' = [req EXCEPT ![r] =
                               CreateAfter([q EXCEPT !.recipeId = id], "insert", 0)]
                 /\ ret' = NoRet
    /\ UNCHANGED <<dbSet, created, marked, observed, sess, adm, admCount>>

\* if (category_id) await db.query("INSERT INTO recipe_categories ...")
CreateCategory(r) ==
    /\ req[r].h = "create" /\ req[r].pc = "category"
    /\ \E c \in Conns, fault \in BOOLEAN :
        LET q == req[r]
        IN  IF fault
            THEN /\ CreateRespond(r, q, "error")
                 /\ UNCHANGED <<db, tx, nextId>>
            ELSE /\ HasFreeId("recipe_categories")
                 /\ Write(c, InsertRecipeCategory(View(c), nextId["recipe_categories"],
                                                  q.recipeId))
                 /\ nextId' = [nextId EXCEPT !["recipe_categories"] = @ + 1]
                 /\ req' = [req EXCEPT ![r] = CreateAfter(q, "category", 0)]
                 /\ ret' = NoRet
    /\ UNCHANGED <<dbSet, created, marked, observed, sess, adm, admCount>>

\* one turn of the loop: await db.query("INSERT INTO recipe_steps ...")
CreateStep(r) ==
    /\ req[r].h = "create" /\ req[r].pc = "step"
    /\ \E c \in Conns, fault \in BOOLEAN :
        LET q == req[r]
        IN  IF fault
            THEN /\ CreateRespond(r, q, "error")
                 /\ UNCHANGED <<db, tx, nextId>>
            ELSE /\ HasFreeId("recipe_steps")
                 /\ Write(c, InsertRecipeStep(View(c), nextId["recipe_steps"],
                                              q.recipeId))
                 /\ nextId' = [nextId EXCEPT !["recipe_steps"] = @ + 1]
                 /\ req' = [req EXCEPT ![r] = CreateAfter(q, "step", q.i)]
                 /\ ret' = NoRet
    /\ UNCHANGED <<dbSet, created, marked, observed, sess, adm, admCount>>

\* await createNotification(req.session.user.id, ...) and res.redirect
CreateNotify(r) ==
    /\ req[r].h = "create" /\ req[r].pc = "notify"
    /\ \E c \in Conns, fault \in BOOLEAN :
        LET q == req[r]
        IN  /\ createNotification(c, fault, q.user.id, createText(q.title),
                                  createLink(q.recipeId))
            /\ CreateRespond(r, q, "302 redirect")
    /\ UNCHANGED <<dbSet, marked, observed, sess, adm, admCount>>

NextRating ==
    \/ \E r \in Reqs : StartRating(r)
    \/ \E r \in Reqs : RatingSelect(r)
    \/ \E r \in Reqs : RatingInsert(r)
    \/ \E r \in Reqs : RatingNotify(r)

\* rating submissions in flight together
SpecRating == Init /\ [][NextRating]_vars

\* the rows inserted so far, over all tables
Inserted == (nextId["ratings"] - FirstFreeId) + (nextId["reviews"] - FirstFreeId)
            + (nextId["recipes"] - FirstFreeId) + (nextId["notifications"] - FirstFreeId)

\* the requests being served
InFlight == Cardinality({s \in Reqs : req[s] # Idle})

\* new requests are taken while the rows inserted and the requests in
\* flight stay below MaxCalls together
HasRoom == Inserted + InFlight < MaxCalls

NextContent ==
    \/ \E r \in Calls : HasRoom /\ StartRating(r)
    \/ \E r \in Calls : RatingSelect(r)
    \/ \E r \in Calls : RatingInsert(r)
    \/ \E r \in Calls : RatingNotify(r)
    \/ \E r \in Calls : HasRoom /\ StartReview(r)
    \/ \E r \in Calls : ReviewSelect(r)
    \/ \E r \in Calls : ReviewInsert(r)
    \/ \E r \in Calls : ReviewSelectNew(r)
    \/ \E r \in Calls : ReviewNotify(r)
    \/ \E r \in Calls : HasRoom /\ StartCreate(r)
    \/ \E r \in Calls : CreateInsert(r)
    \/ \E r \in Calls : CreateCategory(r)
    \/ \E r \in Calls : CreateStep(r)
    \/ \E r \in Calls : CreateNotify(r)

\* the three handlers that notify: ratings, reviews and new recipes
SpecContent == Init /\ [][NextContent]_vars

NextBan ==
    \/ StartBan
    \/ BanRefuse
    \/ BanStep
    \/ BanList
    \/ BanCatch

\* the admin banning users
SpecBan == Init /\ [][NextBan]_vars

(* ------------- unban, login, logout and requireAuth ------------------- *)
\* UPDATE users SET is_banned = FALSE, ... WHERE id = ?
UnbanUser(v, userId) ==
    [v EXCEPT !["users"] =
        {IF u.id = userId THEN [u EXCEPT !.is_banned = FALSE] ELSE u : u \in @}]

\* POST /admin/users/unban/:id: requireAdmin passed
StartUnban ==
    /\ adm = Idle
    /\ admCount < MaxAdminReqs
    /\ admCount' = admCount + 1
    /\ \E target \in UserIds :
        adm' = [h |-> "unban", target |-> target, pre |-> db,
                pc |-> "statement"]
    /\ ret' = NoRet
    /\ UNCHANGED <<db, tx, nextId, req, dbSet, created, marked, observed, sess>>

\* the awaited UPDATE of the try block; an error jumps to the catch
UnbanStep ==
    /\ adm.h = "unban" /\ adm.pc = "statement"
    /\ \E c \in Conns, fault \in BOOLEAN :
        IF fault
        THEN /\ adm' = [adm EXCEPT !.pc = "catch"]
             /\ UNCHANGED <<db, tx>>
        ELSE /\ Write(c, UnbanUser(View(c), adm.target))
             /\ adm' = [adm EXCEPT !.pc = "list"]
    /\ ret' = NoRet
    /\ UNCHANGED <<nextId, req, dbSet, created, marked, observed, sess, admCount>>

\* SELECT * FROM users at the end of the try, then the success page
UnbanList ==
    /\ adm.h = "unban" /\ adm.pc = "list"
    /\ \E fault \in BOOLEAN :
        IF fault
        THEN adm' = [adm EXCEPT !.pc = "catch"] /\ ret' = NoRet
        ELSE AdminRespond("unbanned")
    /\ UNCHANGED <<db, tx, nextId, req, dbSet, created, marked, observed, sess, admCount>>

\* catch (err): SELECT * FROM users, then the error page
UnbanCatch ==
    /\ adm.h = "unban" /\ adm.pc = "catch"
    /\ AdminRespond("error")
    /\ UNCHANGED <<db, tx, nextId, req, dbSet, created, marked, observed, sess, admCount>>

\* POST /login of an ordinary user (the admin's session is the one the admin
\* requests come with): the users row is looked up, a missing or banned
\* user and a wrong password are refused, otherwise req.session.user is
\* stored
Login ==
    /\ \E c \in Conns, u \in UserIds \ {AdminUser.id}, match \in BOOLEAN :
        LET rows == {x \in View(c).users : x.id = u} IN
        IF rows = {} \/ (\E x \in rows : x.is_banned) \/ ~match
        THEN /\ sess' = sess
             /\ ret' = [op |-> "login", user |-> u, status |-> "refused"]
        ELSE /\ sess' = [sess EXCEPT ![u] = SessionOf(CHOOSE x \in rows : TRUE)]
             /\ ret' = [op |-> "login", user |-> u, status |-> "redirect"]
    /\ UNCHANGED <<db, tx, nextId, req, dbSet, created, marked, observed, adm, admCount>>

\* GET /logout
Logout ==
    /\ \E u \in UserIds \ {AdminUser.id} :
        /\ sess[u] # NoSession
        /\ sess' = [sess EXCEPT ![u] = NoSession]
        /\ ret' = [op |-> "logout", user |-> u, status |-> "redirect"]
    /\ UNCHANGED <<db, tx, nextId, req, dbSet, created, marked, observed, adm, admCount>>

\* req.session.user.is_banned: undefined (falsy) when the session object
\* has no such property
SessionBanned(s) == IF "is_banned" \in DOMAIN s THEN s.is_banned ELSE FALSE

\* const requireAuth = (req, res, next) => ...: without a session user it
\* redirects; a session flagged is_banned is destroyed; next() follows the
\* second if without a return
requireAuth(s) ==
    IF s = NoSession
    THEN [next |-> FALSE, destroy |-> FALSE]
    ELSE [next |-> TRUE, destroy |-> SessionBanned(s)]

\* GET /api/notifications/count through requireAuth, sent by the browser of
\* user u: the handler answers the unread count
ProtectedCount ==
    /\ \E c \in Conns, fault \in BOOLEAN, u \in UserIds \ {AdminUser.id} :
        LET auth == requireAuth(sess[u])
            v == View(c)
            \* u's row is flagged and every statement of the ban has run
            banned == /\ \E x \in v.users : x.id = u /\ x.is_banned
                      /\ \A x \in v.recipes \cup v.reviews \cup v.ratings :
                            x.user_id # u
        IN  /\ sess' = IF auth.destroy THEN [sess EXCEPT ![u] = NoSession]
                       ELSE sess
            /\ ret' = [op |-> "count", user |-> u, ran |-> auth.next,
                       destroyed |-> auth.destroy,
                       hadSession |-> sess[u] # NoSession,
                       banned |-> banned /\ adm = Idle,
                       value |-> IF auth.next THEN getUnreadCount(c, fault, u)
                                 ELSE 0]
    /\ UNCHANGED <<db, tx, nextId, req, dbSet, created, marked, observed, adm, admCount>>

(* -------------------- POST /admin/users/delete/:id -------------------- *)
\* a database in which both ordinary users own a recipe with a step and a
\* category link, have rated and reviewed the other's recipe and have been
\* notified of it
SecondRecipe == [id |-> 2, user_id |-> Guest.id, title |-> "Kasha"]
PopulatedDb ==
    [users |-> SeedUsers,
     recipes |-> {SeedRecipe, SecondRecipe},
     recipe_steps |-> {[id |-> x.id, recipe_id |-> x.id] :
                            x \in {SeedRecipe, SecondRecipe}},
     recipe_categories |-> {[id |-> x.id, recipe_id |-> x.id] :
                            x \in {SeedRecipe, SecondRecipe}},
     ratings |-> {[id |-> 1, recipe_id |-> SeedRecipe.id,
                   user_id |-> Guest.id, rating |-> 5],
                  [id |-> 2, recipe_id |-> SecondRecipe.id,
                   user_id |-> Owner.id, rating |-> 5]},
     reviews |-> {[id |-> 1, recipe_id |-> SeedRecipe.id, user_id |-> Guest.id,
                   author_name |-> <<>>],
                  [id |-> 2, recipe_id |-> SecondRecipe.id, user_id |-> Owner.id,
                   author_name |-> <<>>]},
     notifications |->
        {NotificationRow(1, Owner.id,
                         ratingText(SessionOf(Guest), SeedRecipe, 5),
                         ratingLink(SeedRecipe.id)),
         NotificationRow(2, Guest.id,
                         ratingText(SessionOf(Owner), SecondRecipe, 5),
                         ratingLink(SecondRecipe.id))}]

InitPopulated ==
    /\ db = PopulatedDb
    /\ tx = [c \in Conns |-> NoTx]
    /\ nextId = [t \in Tables |-> FirstFreeId]
    /\ req = [r \in Reqs |-> Idle]
    /\ ret = NoRet
    /\ dbSet = FALSE
    /\ created = [u \in UserIds |-> 0]
    /\ marked = [u \in UserIds |-> FALSE]
    /\ observed = [op |-> "none"]
    /\ adm = Idle
    /\ admCount = 0
    /\ sess = [u \in UserIds |-> NoSession]

\* START TRANSACTION on connection c (a transaction already open on c is
\* committed implicitly)
StartTransaction(c) ==
    /\ db' = View(c)
    /\ tx' = [tx EXCEPT ![c] = [NoTx EXCEPT !.open = TRUE]]

\* COMMIT on connection c
Commit(c) ==
    /\ db' = View(c)
    /\ tx' = [tx EXCEPT ![c] = NoTx]

\* ROLLBACK on connection c
Rollback(c) ==
    /\ db' = db
    /\ tx' = [tx EXCEPT ![c] = NoTx]

\* the write w on connection c needs a row that the open transaction of
\* another connection has deleted and still locks: it waits and times out
Blocked(c, w) ==
    \E d \in Conns \ {c}, t \in Tables :
        /\ tx[d].open
        /\ {x.id : x \in View(c)[t] \ w[t]} \cap tx[d].del[t] # {}

\* DELETE FROM <table> WHERE recipe_id = ?
DeleteOfRecipe(t, v, recipeId) ==
    [v EXCEPT ![t] = {x \in @ : x.recipe_id # recipeId}]

\* DELETE FROM recipes / reviews / notifications WHERE user_id = ?
DeleteOfUser(t, v, userId) ==
    [v EXCEPT ![t] = {x \in @ : x.user_id # userId}]

\* DELETE FROM users WHERE id = ?
DeleteUser(v, userId) ==
    [v EXCEPT !["users"] = {u \in @ : u.id # userId}]

\* the four DELETEs of the loop body, in order
RecipeSteps == <<"recipe_steps", "recipe_categories", "ratings", "reviews">>
\* a user-first order of the statements after the loop
UserStepsUserFirst == <<"users", "recipes", "ratings", "reviews", "notifications">>

\* the DELETEs after the loop, in order
UserSteps == <<"recipes", "ratings", "reviews", "notifications", "users">>

\* the rows of userRecipes in id order
RECURSIVE SortedIds(_)
SortedIds(S) ==
    IF S = {} THEN <<>>
    ELSE LET m == CHOOSE x \in S : \A y \in S : x <= y
         IN  <<m>> \o SortedIds(S \ {m})

\* the statement the cascade is about to run, applied to what it reads
DeleteStatement(q, v) ==
    IF q.todo # <<>>
    THEN DeleteOfRecipe(RecipeSteps[q.k], v, Head(q.todo))
    ELSE IF UserSteps[q.k] = "users"
         THEN DeleteUser(v, q.target)
         ELSE DeleteOfUser(UserSteps[q.k], v, q.target)

\* where the cascade stands after that statement
DeleteAdvance(q) ==
    IF q.todo # <<>>
    THEN IF q.k < Len(RecipeSteps)
         THEN [q EXCEPT !.k = @ + 1, !.done = @ + 1]
         ELSE [q EXCEPT !.k = 1, !.todo = Tail(@), !.done = @ + 1]
    ELSE IF q.k < Len(UserSteps)
         THEN [q EXCEPT !.k = @ + 1, !.done = @ + 1]
         ELSE [q EXCEPT !.pc = "commit", !.done = @ + 1]

\* the whole try block applied at once: what the cascade is meant to commit
RECURSIVE CascadeRecipes(_, _)
CascadeRecipes(v, todo) ==
    IF todo = <<>> THEN v
    ELSE CascadeRecipes(
            DeleteOfRecipe("reviews",
                DeleteOfRecipe("ratings",
                    DeleteOfRecipe("recipe_categories",
                        DeleteOfRecipe("recipe_steps", v, Head(todo)),
                        Head(todo)),
                    Head(todo)),
                Head(todo)),
            Tail(todo))
Cascade(v, userId) ==
    LET owned == SortedIds({x.id : x \in {y \in v.recipes : y.user_id = userId}})
        a == CascadeRecipes(v, owned)
        b == DeleteOfUser("recipes", a, userId)
        c == DeleteOfUser("ratings", b, userId)
        d == DeleteOfUser("reviews", c, userId)
        e == DeleteOfUser("notifications", d, userId)
    IN  DeleteUser(e, userId)

\* the handler renders admin_users
DeleteRespond(status) ==
    /\ adm' = Idle
    /\ ret' = [op |-> "delete", status |-> status, target |-> adm.target,
               pre |-> adm.pre, at |-> adm.at, done |-> adm.done,
               conns |-> adm.conns]

\* an awaited query of the try block rejected: jump to the catch
DeleteFailed(q) == [q EXCEPT !.pc = "rollback", !.at = q.pc]

\* requireAdmin passed; if (req.session.user.id == userId) refuse
StartDelete ==
    /\ adm = Idle
    /\ admCount < MaxAdminReqs
    /\ admCount' = admCount + 1
    /\ \E target \in UserIds :
        adm' = [h |-> "delete", target |-> target, k |-> 1, todo |-> <<>>,
                found |-> FALSE, pre |-> db, at |-> "none", done |-> 0,
                conns |-> {},
                pc |-> IF IsOwnAccount(target) THEN "refuse" ELSE "begin"]
    /\ ret' = NoRet
    /\ UNCHANGED <<db, tx, nextId, req, dbSet, created, marked, observed, sess>>

\* the self-delete branch: SELECT * FROM users, then the error page
DeleteRefuse ==
    /\ adm.h = "delete" /\ adm.pc = "refuse"
    /\ DeleteRespond("refused")
    /\ UNCHANGED <<db, tx, nextId, req, dbSet, created, marked, observed, sess, admCount>>

\* await db.query("START TRANSACTION")
DeleteBegin ==
    /\ adm.h = "delete" /\ adm.pc = "begin"
    /\ \E c \in Conns, fault \in BOOLEAN :
        IF fault
        THEN /\ adm' = DeleteFailed(adm)
             /\ UNCHANGED <<db, tx>>
        ELSE /\ StartTransaction(c)
             /\ adm' = [adm EXCEPT !.pc = "selectUser", !.conns = @ \cup {c}]
    /\ ret' = NoRet
    /\ UNCHANGED <<nextId, req, dbSet, created, marked, observed, sess, admCount>>

\* SELECT login FROM users WHERE id = ?
DeleteSelectUser ==
    /\ adm.h = "delete" /\ adm.pc = "selectUser"
    /\ \E c \in Conns, fault \in BOOLEAN :
        adm' = IF fault THEN DeleteFailed(adm)
               ELSE [adm EXCEPT !.pc = "selectRecipes", !.conns = @ \cup {c},
                        !.found = \E u \in View(c).users : u.id = adm.target]
    /\ ret' = NoRet
    /\ UNCHANGED <<db, tx, nextId, req, dbSet, created, marked, observed, sess, admCount>>

\* SELECT id FROM recipes WHERE user_id = ?
DeleteSelectRecipes ==
    /\ adm.h = "delete" /\ adm.pc = "selectRecipes"
    /\ \E c \in Conns, fault \in BOOLEAN :
        adm' = IF fault THEN DeleteFailed(adm)
               ELSE [adm EXCEPT !.pc = "statement", !.conns = @ \cup {c},
                        !.todo = SortedIds({x.id :
                            x \in {y \in View(c).recipes : y.user_id = adm.target}})]
    /\ ret' = NoRet
    /\ UNCHANGED <<db, tx, nextId, req, dbSet, created, marked, observed, sess, admCount>>

\* one awaited DELETE of the cascade
DeleteStep ==
    /\ adm.h = "delete" /\ adm.pc = "statement"
    /\ \E c \in Conns, fault \in BOOLEAN :
        LET w == DeleteStatement(adm, View(c)) IN
        IF fault \/ Blocked(c, w)
                 \/ (w.users # View(c).users /\ UserIsReferenced(c, adm.target))
        THEN /\ adm' = DeleteFailed(adm)
             /\ UNCHANGED <<db, tx>>
        ELSE /\ Write(c, w)
             /\ adm' = [DeleteAdvance(adm) EXCEPT !.conns = @ \cup {c}]
    /\ ret' = NoRet
    /\ UNCHANGED <<nextId, req, dbSet, created, marked, observed, sess, admCount>>

\* await db.query("COMMIT")
DeleteCommit ==
    /\ adm.h = "delete" /\ adm.pc = "commit"
    /\ \E c \in Conns, fault \in BOOLEAN :
        IF fault
        THEN /\ adm' = DeleteFailed(adm)
             /\ UNCHANGED <<db, tx>>
        ELSE /\ Commit(c)
             /\ adm' = [adm EXCEPT !.pc = "list", !.conns = @ \cup {c}]
    /\ ret' = NoRet
    /\ UNCHANGED <<nextId, req, dbSet, created, marked, observed, sess, admCount>>

\* SELECT * FROM users and the success page, whose message reads user.login:
\* a TypeError when no user row was found
DeleteList ==
    /\ adm.h = "delete" /\ adm.pc = "list"
    /\ \E fault \in BOOLEAN :
        IF fault \/ ~adm.found
        THEN adm' = DeleteFailed(adm) /\ ret' = NoRet
        ELSE DeleteRespond("deleted")
    /\ UNCHANGED <<db, tx, nextId, req, dbSet, created, marked, observed, sess, admCount>>

\* catch (err): ROLLBACK, SELECT * FROM users, the generic error page
DeleteRollback ==
    /\ adm.h = "delete" /\ adm.pc = "rollback"
    /\ \E c \in Conns :
        /\ Rollback(c)
        /\ DeleteRespond("error")
    /\ UNCHANGED <<nextId, req, dbSet, created, marked, observed, sess, admCount>>

\* what GET /recipes/:id renders on reading v: the recipe row with its
\* steps, category links, reviews and ratings, or 404 on no recipe row
RecipePage(v, recipeId) ==
    IF \A x \in v.recipes : x.id # recipeId
    THEN [found |-> FALSE]
    ELSE [found |-> TRUE,
          recipe |-> {x \in v.recipes : x.id = recipeId},
          steps |-> {x \in v.recipe_steps : x.recipe_id = recipeId},
          categories |-> {x \in v.recipe_categories : x.recipe_id = recipeId},
          reviews |-> {x \in v.reviews : x.recipe_id = recipeId},
          ratings |-> {x \in v.ratings : x.recipe_id = recipeId}]

\* GET /recipes/:id served while the admin's delete is in flight
ReadRecipePage ==
    /\ adm.h = "delete"
    /\ \E c \in Conns, recipeId \in {SeedRecipe.id, SecondRecipe.id} :
        observed' = [op |-> "recipe page", id |-> recipeId,
                     page |-> RecipePage(View(c), recipeId),
                     target |-> adm.target,
                     pre |-> RecipePage(adm.pre, recipeId),
                     post |-> RecipePage(Cascade(adm.pre, adm.target), recipeId)]
    /\ ret' = NoRet
    /\ UNCHANGED <<db, tx, nextId, req, dbSet, created, marked, adm, admCount, sess>>

NextDelete ==
    \/ StartDelete
    \/ DeleteRefuse
    \/ DeleteBegin
    \/ DeleteSelectUser
    \/ DeleteSelectRecipes
    \/ DeleteStep
    \/ DeleteCommit
    \/ DeleteList
    \/ DeleteRollback
    \/ ReadRecipePage

\* the admin deleting users of a populated site while pages are read
SpecDelete == InitPopulated /\ [][NextDelete]_vars

(* --------------------------- POST /register --------------------------- *)
\* req.body.login and req.body.email: a new pair and the pair of user Owner
Logins == {"nina", Owner.login}
Emails == {"nina@x", Owner.email}

\* the unique keys of users: login and email
UserIsDuplicate(v, login, email) ==
    \E u \in v.users : u.login = login \/ u.email = email

\* SELECT id FROM users WHERE email = ? OR login = ? LIMIT 1
ExistingUsers(v, login, email) ==
    {u \in v.users : u.email = email \/ u.login = login}

\* INSERT INTO users (login, name, email, password, role) VALUES (..., 'user')
InsertUser(v, id, login, email) ==
    [v EXCEPT !["users"] = @ \cup
        {[id |-> id, login |-> login, name |-> login, email |-> email,
          is_banned |-> FALSE, role |-> "user"]}]

\* res.render("register", { errors }) or res.redirect("/recipes"); logged is
\* what console.error(err) printed in the catch; the session of the new
\* user belongs to a browser of its own and is kept in the answer
RegisterRespond(r, q, status, logged) ==
    /\ req' = [req EXCEPT ![r] = Idle]
    /\ ret' = [op |-> "register", status |-> status, logged |-> logged,
               login |-> q.login, email |-> q.email,
               session |-> IF status = "302 recipes"
                           THEN [id |-> nextId["users"], name |-> q.login,
                                 email |-> q.email, role |-> "user"]
                           ELSE NoSession]

\* the request arrives: if (password !== password_confirm)
StartRegister(r) ==
    /\ req[r] = Idle
    /\ \E login \in Logins, email \in Emails, confirmed \in BOOLEAN :
        LET q == [h |-> "register", pc |-> "select", login |-> login,
                  email |-> email]
        IN  IF ~confirmed
            THEN RegisterRespond(r, q, "passwords differ", "none")
            ELSE /\ req' = [req EXCEPT ![r] = q]
                 /\ ret' = NoRet
    /\ UNCHANGED <<db, tx, nextId, dbSet, created, marked, observed, sess, adm, admCount>>

\* const [existing] = await db.query("SELECT id FROM users WHERE ...")
RegisterSelect(r) ==
    /\ req[r].h = "register" /\ req[r].pc = "select"
    /\ \E c \in Conns, fault \in BOOLEAN :
        LET q == req[r]
        IN  IF fault THEN RegisterRespond(r, q, "generic error", "fault")
            ELSE IF ExistingUsers(View(c), q.login, q.email) # {}
            THEN RegisterRespond(r, q, "exists", "none")
            ELSE /\ req' = [req EXCEPT ![r] = [q EXCEPT !.pc = "hash"]]
                 /\ ret' = NoRet
    /\ UNCHANGED <<db, tx, nextId, dbSet, created, marked, observed, sess, adm, admCount>>

\* const hashedPassword = await bcrypt.hash(password, 10)
RegisterHash(r) ==
    /\ req[r].h = "register" /\ req[r].pc = "hash"
    /\ req' = [req EXCEPT ![r] = [@ EXCEPT !.pc = "insert"]]
    /\ ret' = NoRet
    /\ UNCHANGED <<db, tx, nextId, dbSet, created, marked, observed, sess, adm, admCount>>

\* const [result] = await db.query("INSERT INTO users ..."), the session and
\* the redirect; every error lands in the one catch
RegisterInsert(r) ==
    /\ req[r].h = "register" /\ req[r].pc = "insert"
    /\ \E c \in Conns, fault \in BOOLEAN :
        LET q == req[r]
        IN  IF fault
            THEN /\ RegisterRespond(r, q, "generic error", "fault")
                 /\ UNCHANGED <<db, tx, nextId>>
            ELSE IF UserIsDuplicate(View(c), q.login, q.email)
            THEN /\ RegisterRespond(r, q, "generic error", "duplicate entry")
                 /\ UNCHANGED <<db, tx, nextId>>
            ELSE /\ HasFreeId("users")
                 /\ Write(c, InsertUser(View(c), nextId["users"], q.login, q.email))
                 /\ nextId' = [nextId EXCEPT !["users"] = @ + 1]
                 /\ RegisterRespond(r, q, "302 recipes", "none")
    /\ UNCHANGED <<dbSet, created, marked, observed, sess, adm, admCount>>

NextRegister ==
    \/ \E r \in Reqs : StartRegister(r)
    \/ \E r \in Reqs : RegisterSelect(r)
    \/ \E r \in Reqs : RegisterHash(r)
    \/ \E r \in Reqs : RegisterInsert(r)

\* registrations in flight together
SpecRegister == Init /\ [][NextRegister]_vars

(* ------------- getUserNotifications and the locals middleware --------- *)
\* the limits the middleware and the notifications page ask for
LocalsLimit == 5
PageLimit == 50

\* ORDER BY created_at DESC: the rows of S, newest first (created_at grows
\* with the AUTO_INCREMENT id)
RECURSIVE NewestFirst(_)
NewestFirst(S) ==
    IF S = {} THEN <<>>
    ELSE LET n == CHOOSE x \in S : \A y \in S : y.id <= x.id
         IN  <<n>> \o NewestFirst(S \ {n})

\* LIMIT ?
Limit(s, limit) == SubSeq(s, 1, IF Len(s) < limit THEN Len(s) ELSE limit)

\* a read without the catch's default
getUserNotificationsUnguarded(c, fault, userId, limit) ==
    Limit(NewestFirst({n \in View(c).notifications : n.user_id = userId}), limit)

\* async function getUserNotifications(userId, limit = 10): the rows, or []
\* from the catch
getUserNotifications(c, fault, userId, limit) ==
    IF fault THEN <<>>
    ELSE Limit(NewestFirst({n \in View(c).notifications : n.user_id = userId}),
               limit)

\* next(): the request goes on to its route with these res.locals
LocalsNext(r, q) ==
    /\ req' = [req EXCEPT ![r] = Idle]
    /\ ret' = [op |-> "locals", user |-> q.user.id, next |-> TRUE,
               notificationCount |-> q.notificationCount,
               notifications |-> q.notifications,
               countLogged |-> q.countLogged, listLogged |-> q.listLogged]

\* app.use(async (req, res, next) => ...): a request without a session gets
\* 0 and [] at once
StartLocals(r) ==
    /\ req[r] = Idle
    /\ \E user \in Sessions \cup {NoSession} :
        LET q == [h |-> "locals", pc |-> "count", user |-> user,
                  notificationCount |-> 0, notifications |-> <<>>,
                  countLogged |-> FALSE, listLogged |-> FALSE]
        IN  IF user = NoSession
            THEN LocalsNext(r, q)
            ELSE /\ req' = [req EXCEPT ![r] = q]
                 /\ ret' = NoRet
    /\ UNCHANGED <<db, tx, nextId, dbSet, created, marked, observed, sess, adm, admCount>>

\* const unreadCount = await getUnreadCount(req.session.user.id)
LocalsCount(r) ==
    /\ req[r].h = "locals" /\ req[r].pc = "count"
    /\ \E c \in Conns, fault \in BOOLEAN :
        req' = [req EXCEPT ![r] =
                   [req[r] EXCEPT !.notificationCount =
                                       getUnreadCount(c, fault, req[r].user.id),
                                  !.countLogged = fault,
                                  !.pc = "list"]]
    /\ ret' = NoRet
    /\ UNCHANGED <<db, tx, nextId, dbSet, created, marked, observed, sess, adm, admCount>>

\* const notifications = await getUserNotifications(req.session.user.id, 5)
\* and next()
LocalsList(r) ==
    /\ req[r].h = "locals" /\ req[r].pc = "list"
    /\ \E c \in Conns, fault \in BOOLEAN :
        LocalsNext(r, [req[r] EXCEPT !.notifications =
                                         getUserNotifications(c, fault,
                                             req[r].user.id, LocalsLimit),
                                     !.listLogged = fault])
    /\ UNCHANGED <<db, tx, nextId, dbSet, created, marked, observed, sess, adm, admCount>>

\* GET /notifications: getUserNotifications(req.session.user.id, 50), render
NotificationsPage ==
    /\ \E c \in Conns, fault \in BOOLEAN, user \in Sessions :
        ret' = [op |-> "notificationsPage", user |-> user.id,
                status |-> "rendered", listLogged |-> fault,
                notifications |-> getUserNotifications(c, fault, user.id, PageLimit)]
    /\ UNCHANGED <<db, tx, nextId, req, dbSet, created, marked, observed, sess, adm, admCount>>

NextPages ==
    \/ CallCreateNotification
    \/ CallGetUnreadCount
    \/ \E r \in Calls : StartLocals(r)
    \/ \E r \in Calls : LocalsCount(r)
    \/ \E r \in Calls : LocalsList(r)
    \/ NotificationsPage

\* pages being served while notifications are written
SpecPages == Init /\ [][NextPages]_vars

(* ----------------------- GET /recipes/:id/delete ---------------------- *)
\* DELETE FROM recipes WHERE id=?
DeleteRecipe(v, recipeId) ==
    [v EXCEPT !["recipes"] = {x \in @ : x.id # recipeId}]

\* the three DELETEs of the handler, in order
RecipeDeleteSteps == <<"recipe_steps", "recipe_categories", "recipes">>
RecipeDeleteStatement(k, v, recipeId) ==
    IF RecipeDeleteSteps[k] = "recipes" THEN DeleteRecipe(v, recipeId)
    ELSE DeleteOfRecipe(RecipeDeleteSteps[k], v, recipeId)

\* currentUser.role === "admin" || currentUser.id === recipeOwner
IsOwnerOrAdmin(user, recipeOwner) ==
    user.role = "admin" \/ user.id = recipeOwner

\* the answer of requireOwnerOrAdmin or of the handler
RecipeDeleteRespond(r, q, status) ==
    /\ req' = [req EXCEPT ![r] = Idle]
    /\ ret' = [op |-> "recipeDelete", status |-> status, user |-> q.user.id,
               recipeId |-> q.recipeId]

\* requireOwnerOrAdmin: if (!req.session.user) return res.redirect("/login")
StartRecipeDelete(r) ==
    /\ req[r] = Idle
    /\ \E user \in Sessions \cup {SessionOf(AdminUser), NoSession},
          recipeId \in RecipeIds \cup {NULL} :
        LET q == [h |-> "recipeDelete", pc |-> "owner", user |-> user,
                  recipeId |-> recipeId, k |-> 1]
        IN  IF user = NoSession
            THEN RecipeDeleteRespond(r, q, "302 login")
            ELSE /\ req' = [req EXCEPT ![r] = q]
                 /\ ret' = NoRet
    /\ UNCHANGED <<db, tx, nextId, dbSet, created, marked, observed, sess, adm, admCount>>

\* requireOwnerOrAdmin: SELECT user_id FROM recipes WHERE id = ? LIMIT 1
RecipeDeleteOwner(r) ==
    /\ req[r].h = "recipeDelete" /\ req[r].pc = "owner"
    /\ \E c \in Conns :
        LET q == req[r]
            rows == {x \in View(c).recipes : x.id = q.recipeId}
        IN  IF rows = {}
            THEN RecipeDeleteRespond(r, q, "404 not found")
            ELSE IF IsOwnerOrAdmin(q.user, (CHOOSE x \in rows : TRUE).user_id)
            THEN /\ req' = [req EXCEPT ![r] = [q EXCEPT !.pc = "statement"]]
                 /\ ret' = NoRet
            ELSE RecipeDeleteRespond(r, q, "403 forbidden")
    /\ UNCHANGED <<db, tx, nextId, dbSet, created, marked, observed, sess, adm, admCount>>

\* one awaited DELETE of the handler; after the last one, res.redirect
RecipeDeleteStep(r) ==
    /\ req[r].h = "recipeDelete" /\ req[r].pc = "statement"
    /\ \E c \in Conns :
        LET q == req[r]
        IN  /\ Write(c, RecipeDeleteStatement(q.k, View(c), q.recipeId))
            /\ IF q.k = Len(RecipeDeleteSteps)
               THEN RecipeDeleteRespond(r, q, "302 recipes")
               ELSE /\ req' = [req EXCEPT ![r] = [q EXCEPT !.k = @ + 1]]
                    /\ ret' = NoRet
    /\ UNCHANGED <<nextId, dbSet, created, marked, observed, sess, adm, admCount>>

(* --------- POST /notifications/:id/read and /notifications/read-all --- *)
\* await markAsRead(req.params.id, req.session.user.id); res.json
\* (a run holds one request that marks)
PostRead ==
    /\ \E c \in Conns, fault \in BOOLEAN, user \in Sessions, id \in 1..MaxId :
        /\ \A u \in UserIds : ~marked[u]
        /\ markAsRead(c, fault, id, user.id)
        /\ marked' = [marked EXCEPT ![user.id] = TRUE]
        /\ ret' = [op |-> "read", user |-> user.id, id |-> id]
    /\ UNCHANGED <<nextId, req, dbSet, created, observed, sess, adm, admCount>>

\* await markAllAsRead(req.session.user.id); res.json
PostReadAll ==
    /\ \E c \in Conns, fault \in BOOLEAN, user \in Sessions :
        /\ \A u \in UserIds : ~marked[u]
        /\ markAllAsRead(c, fault, user.id)
        /\ marked' = [marked EXCEPT ![user.id] = TRUE]
        /\ ret' = [op |-> "readAll", user |-> user.id]
    /\ UNCHANGED <<nextId, req, dbSet, created, observed, sess, adm, admCount>>

\* no recipe deletion has been requested so far
NoRecipeDeletion ==
    /\ \A r \in Reqs : req[r] = Idle
    /\ \A t \in Tables \ {"notifications"} : db[t] = PopulatedDb[t]

\* no request of the admin has been made so far
NoAdminRequest == adm = Idle /\ admCount = 0

NextLifecycle ==
    \/ PostRead
    \/ PostReadAll
    \/ NoRecipeDeletion /\ StartBan
    \/ BanRefuse
    \/ BanStep
    \/ BanList
    \/ BanCatch
    \/ NoRecipeDeletion /\ StartUnban
    \/ UnbanStep
    \/ UnbanList
    \/ UnbanCatch
    \/ \E r \in Calls : NoAdminRequest /\ StartRecipeDelete(r)
    \/ \E r \in Calls : RecipeDeleteOwner(r)
    \/ \E r \in Calls : RecipeDeleteStep(r)
    \/ NoRecipeDeletion /\ StartDelete
    \/ DeleteRefuse
    \/ DeleteBegin
    \/ DeleteSelectUser
    \/ DeleteSelectRecipes
    \/ DeleteStep
    \/ DeleteCommit
    \/ DeleteList
    \/ DeleteRollback

\* the operations that touch notifications or their owners, on a populated
\* site; a run holds requests of the admin or recipe deletions, not both
SpecLifecycle == InitPopulated /\ [][NextLifecycle]_vars

\* the populated site after user Owner has created the second recipe too
\* (both recipes are rated and reviewed by Guest, who was notified of nothing)
OneAuthorDb ==
    [PopulatedDb EXCEPT
        !["recipes"] = {[x EXCEPT !.user_id = Owner.id] : x \in @},
        !["ratings"] = {[x EXCEPT !.user_id = Guest.id] : x \in @},
        !["reviews"] = {[x EXCEPT !.user_id = Guest.id] : x \in @},
        !["notifications"] = {n \in @ : n.user_id = Owner.id}]
InitOneAuthor ==
    /\ db = OneAuthorDb
    /\ tx = [c \in Conns |-> NoTx]
    /\ nextId = [t \in Tables |-> FirstFreeId]
    /\ req = [r \in Reqs |-> Idle]
    /\ ret = NoRet
    /\ dbSet = FALSE
    /\ created = [u \in UserIds |-> 0]
    /\ marked = [u \in UserIds |-> FALSE]
    /\ observed = [op |-> "none"]
    /\ adm = Idle
    /\ admCount = 0
    /\ sess = [u \in UserIds |-> NoSession]

\* the statement the cascade is about to run: its table and its WHERE column
DeleteKind(q) ==
    IF q.todo # <<>> THEN <<RecipeSteps[q.k], "recipe_id">>
    ELSE <<UserSteps[q.k], IF UserSteps[q.k] = "users" THEN "id" ELSE "user_id">>

NextCascade ==
    \/ NoAdminRequest /\ StartDelete
    \/ DeleteRefuse
    \/ DeleteBegin
    \/ DeleteSelectUser
    \/ DeleteSelectRecipes
    \/ DeleteStep
    \/ DeleteCommit
    \/ DeleteList
    \/ DeleteRollback

\* the admin deleting a user; one of the users owns two recipes
SpecCascade == InitOneAuthor /\ [][NextCascade]_vars

\* no rating, review or recipe-create request has been taken yet
NoContentRequest == Inserted = 0 /\ InFlight = 0

\* a review or a recipe-create request is being served
ReviewOrCreateInFlight == \E s \in Calls : req[s].h \in {"review", "create"}

NextOwnership ==
    \/ \E r \in Calls : NoContentRequest /\ StartRating(r)
    \/ \E r \in Calls : RatingSelect(r)
    \/ \E r \in Calls : RatingInsert(r)
    \/ \E r \in Calls : RatingNotify(r)
    \/ \E r \in Calls : NoContentRequest /\ adm = Idle /\ StartReview(r)
    \/ \E r \in Calls : ReviewSelect(r)
    \/ \E r \in Calls : ReviewInsert(r)
    \/ \E r \in Calls : ReviewSelectNew(r)
    \/ \E r \in Calls : ReviewNotify(r)
    \/ \E r \in Calls : NoContentRequest /\ adm = Idle /\ StartCreate(r)
    \/ \E r \in Calls : CreateInsert(r)
    \/ \E r \in Calls : CreateCategory(r)
    \/ \E r \in Calls : CreateStep(r)
    \/ \E r \in Calls : CreateNotify(r)
    \/ NoAdminRequest /\ ~ReviewOrCreateInFlight /\ StartBan
    \/ BanRefuse
    \/ BanStep
    \/ BanList
    \/ BanCatch
    \/ NoAdminRequest /\ ~ReviewOrCreateInFlight /\ StartDelete
    \/ DeleteRefuse
    \/ DeleteBegin
    \/ DeleteSelectUser
    \/ DeleteSelectRecipes
    \/ DeleteStep
    \/ DeleteCommit
    \/ DeleteList
    \/ DeleteRollback

\* one request of the admin (a ban or a delete) and one of a user: a rating
\* at any point of the admin's request, a review or a new recipe before or
\* after it
SpecOwnership == Init /\ [][NextOwnership]_vars

NextAdmin ==
    \/ NextBan
    \/ NextCascade

\* the admin banning or deleting a user of a populated site, the admin's
\* own account among the targets
SpecAdmin == InitPopulated /\ [][NextAdmin]_vars

NextModeration ==
    \/ NextBan
    \/ StartUnban
    \/ UnbanStep
    \/ UnbanList
    \/ UnbanCatch
    \/ Login
    \/ Logout
    \/ ProtectedCount

\* the admin moderating users of a populated site who log in and out
SpecModeration == InitPopulated /\ [][NextModeration]_vars

(* ---------------------- claims on the store -------------------------- *)
\* the rows of userId that are unread, in the committed table
UnreadOf(userId) ==
    {n \in db.notifications : n.user_id = userId /\ ~n.is_read}

\* C9 as stated (refuted): whenever getUnreadCount(U) returns, its value is
\* the number of U's unread rows, and it is N after N successful
\* createNotification calls for U with no mark call for U.
C9_AsStated ==
    ret.op = "getUnreadCount" =>
        /\ ret.value = Cardinality(UnreadOf(ret.user))
        /\ ~marked[ret.user] => ret.value = created[ret.user]

\* C9 (amended): a getUnreadCount(U) whose query does not fault returns the
\* number of U's unread rows, never negative, which is N after N successful
\* createNotification calls for U and no mark call for U; a getUnreadCount
\* whose query faults returns 0.
C9_UnreadCount ==
    ret.op = "getUnreadCount" =>
        /\ ret.value >= 0
        /\ ret.logged => ret.value = 0
        /\ ~ret.logged =>
            /\ ret.value = Cardinality(UnreadOf(ret.user))
            /\ ~marked[ret.user] => ret.value = created[ret.user]

\* two creates for one user (and one for nobody else), then the count is 2
C9_Witness ==
    /\ ret.op = "getUnreadCount"
    /\ ~ret.logged
    /\ ~marked[ret.user]
    /\ created[ret.user] = 2
    /\ ret.value = 2

RowsOf(call) == {n \in db.notifications : n.id \in call.rows}

\* the NEW_RATING outcome of claim C5 for a finished call
NewRatingDelivered(call) ==
    /\ Cardinality(call.rows) = 1
    /\ Cardinality(RowsOf(call)) = 1
    /\ \A n \in RowsOf(call) :
        /\ n.user_id = call.userId
        /\ Contains(n.text, call.data.userName)
        /\ Contains(n.text, call.data.recipeTitle)
        /\ Contains(n.text, call.data.rating)
    /\ IF call.sendEmail /\ call.user.email # NoEmail
       THEN /\ call.sends = 1
            /\ call.mail.to = call.user.email
            /\ call.mail.subject = "New rating of your recipe"
            /\ ContainsText(call.mail.html, call.data.recipeTitle)
            /\ ContainsText(call.mail.text, call.data.recipeTitle)
       ELSE call.sends = 0 /\ call.mail = NoMail

\* C5 as stated (refuted): every sendNotification(target, NEW_RATING, data)
\* call for an existing target user (made with the database injected) writes exactly one notification row of
\* the target with userName, recipeTitle and rating in its text and sends
\* exactly one email iff the flag is set and the target has an email.
C5_AsStated ==
    (/\ ret.op = "sendNotification" /\ ret.type = "NEW_RATING"
     /\ dbSet
     /\ \E u \in db.users : u.id = ret.userId)
        => NewRatingDelivered(ret)

\* C5 (amended): a sendNotification(target, NEW_RATING, data) call that
\* returns true (the database was injected, the target exists, neither the
\* lookup nor the insert faulted) has written exactly one row of the target
\* with userName, recipeTitle and rating in its text and has made exactly
\* one transport send (NEW_RATING subject, body with recipeTitle) if the
\* flag is set and the target has an email, none otherwise; a call that
\* returns false has written no row and made no send.
C5_NewRating ==
    (ret.op = "sendNotification" /\ ret.type = "NEW_RATING") =>
        /\ ret.value = TRUE => NewRatingDelivered(ret)
        /\ ret.value = FALSE => (ret.rows = {} /\ ret.sends = 0)
        /\ (ret.userId # NULL /\ ret.user # NoUser /\ ret.rows # {})
                => ret.value = TRUE

\* a NEW_RATING call returned true after one row and one accepted mail
C5_Witness ==
    /\ ret.op = "sendNotification" /\ ret.type = "NEW_RATING"
    /\ ret.value = TRUE
    /\ ret.sendEmail /\ ret.sends = 1 /\ ret.sent
    /\ Cardinality(RowsOf(ret)) = 1

\* C6: a sendNotification call reaches its email send only after its
\* notification insert has completed and the row exists; a call whose
\* insert failed attempts no email.
C6_InsertBeforeEmail ==
    /\ \A r \in Reqs :
        /\ (req[r].h = "sendNotification"
                /\ req[r].pc \in {"email", "mailing", "mailed"}) =>
            /\ req[r].rows # {}
            /\ \A id \in req[r].rows : \E n \in db.notifications : n.id = id
        /\ (req[r].h = "sendNotification" /\ req[r].pc = "catch") =>
            req[r].sends = 0
    /\ (ret.op = "sendNotification" /\ ret.sends > 0) => RowsOf(ret) # {}
    /\ (ret.op = "sendNotification" /\ ret.rows = {}) => ret.sends = 0

\* a call is awaiting the transport with its row already in the table
C6_Witness ==
    \E r \in Reqs :
        /\ req[r].h = "sendNotification" /\ req[r].pc = "mailing"
        /\ \E n \in db.notifications : n.id \in req[r].rows

\* C7: when the transport fails the send of a sendNotification call, the
\* row the call wrote is still in the table, unaltered, and the call still
\* returns true.
C7_RowSurvivesEmailFailure ==
    /\ \A r \in Reqs :
        (req[r].h = "sendNotification" /\ req[r].pc = "mailed"
            /\ req[r].sends = 1 /\ ~req[r].sent) =>
            \A id \in req[r].rows : \E n \in db.notifications : n.id = id
    /\ (ret.op = "sendNotification" /\ ret.sends = 1 /\ ~ret.sent) =>
        /\ ret.value = TRUE
        /\ ret.rows # {}
        /\ \A id \in ret.rows : \E n \in db.notifications :
            /\ n.id = id
            /\ n.user_id = ret.userId
            /\ n.is_read = FALSE
            /\ n.text = notificationText(ret.type, ret.data)

\* a call returned after the transport rejected its send
C7_Witness ==
    /\ ret.op = "sendNotification"
    /\ ret.sends = 1 /\ ~ret.sent
    /\ RowsOf(ret) # {}

\* C8: sendNotification and sendEmailNotification never raise: every call
\* ends with a boolean result, whatever the lookup, the insert and the
\* transport did; a sendEmailNotification whose transport send failed
\* returns false.
C8_NeverRaises ==
    ret.op \in {"sendNotification", "sendEmailNotification"} =>
        /\ ret.raised = FALSE
        /\ ret.value \in BOOLEAN
        /\ (ret.op = "sendEmailNotification" /\ ~ret.sent) => ret.value = FALSE

\* a call found its user, could not insert, and returned false
C8_Witness ==
    /\ ret.op = "sendNotification"
    /\ ret.user # NoUser /\ ret.rows = {}
    /\ ret.raised = FALSE /\ ret.value = FALSE

(* ------------------ claims on the rating submission ------------------- *)
\* the committed ratings rows of one (recipe, user) pair
PairRows(t, recipeId, userId) ==
    {x \in t.ratings : x.recipe_id = recipeId /\ x.user_id = userId}

C1_AsStated ==
    (/\ ret.op = "delete" /\ ret.status = "error"
     /\ ret.at \in {"statement", "commit"} /\ ret.done > 0)
        => db = ret.pre

\* C2 as stated (refuted by the code): a recipe page read while the delete
\* of user U is in flight shows the recipe either as it was before the
\* delete or as the complete cascade leaves it, and a cascade that reached
\* its success page ran START TRANSACTION, every statement and COMMIT on one
\* connection.
C2_AsStated ==
    /\ observed.op = "recipe page" =>
            observed.page \in {observed.pre, observed.post}
    /\ (ret.op = "delete" /\ ret.status = "deleted") =>
            Cardinality(ret.conns) = 1

(* ------------------------- claims on markAsRead ----------------------- *)
\* C11: a markAsRead(id, U) whose id is not the id of a row owned by U (it
\* belongs to another user or to no row) changes no notification row, so
\* every user's unread rows stay as they were; and no markAsRead(id, U)
\* changes a row that U does not own.
C11_MarkAsReadOwnOnly ==
    [][ret'.op = "markAsRead" =>
        /\ (\A n \in db.notifications :
                ~(n.id = ret'.id /\ n.user_id = ret'.user))
            => /\ db' = db
               /\ \A u \in UserIds :
                    {n \in db'.notifications : n.user_id = u /\ ~n.is_read}
                        = UnreadOf(u)
        /\ {n \in db'.notifications : n.user_id # ret'.user}
                = {n \in db.notifications : n.user_id # ret'.user}
      ]_vars

\* U has just asked to mark a row of V: the call completed without an error
\* being logged and V's row is still unread
C11_Witness ==
    /\ ret.op = "markAsRead" /\ ~ret.logged
    /\ \E n \in db.notifications :
        n.id = ret.id /\ n.user_id # ret.user /\ ~n.is_read

(* ------------------------- claims on the ban -------------------------- *)
\* C12: when a ban of user U has ended with its success page, U's row is
\* flagged is_banned, every recipe and every review that U had authored is
\* still there with user_id = NULL, no ratings row authored by U is left,
\* and all other rows of users, recipes, recipe steps, category links,
\* reviews and ratings are as they were when the ban started.
C12_BanEffects ==
    (ret.op = "ban" /\ ret.status = "banned") =>
        LET U == ret.target
            pre == ret.pre
        IN  /\ \E u \in db.users : u.id = U /\ u.is_banned
            /\ db.users = {IF u.id = U THEN [u EXCEPT !.is_banned = TRUE]
                                       ELSE u : u \in pre.users}
            /\ db.recipes = {IF x.user_id = U THEN [x EXCEPT !.user_id = NULL]
                                              ELSE x : x \in pre.recipes}
            /\ db.reviews = {IF x.user_id = U THEN [x EXCEPT !.user_id = NULL]
                                              ELSE x : x \in pre.reviews}
            /\ db.ratings = {x \in pre.ratings : x.user_id # U}
            /\ \A x \in db.ratings : x.user_id # U
            /\ db.recipe_steps = pre.recipe_steps
            /\ db.recipe_categories = pre.recipe_categories

\* a ban has just succeeded for a user who had a recipe, a review and a
\* rating: the recipe and the review are anonymous, the rating is gone
C12_Witness ==
    /\ ret.op = "ban" /\ ret.status = "banned"
    /\ \E x \in ret.pre.recipes : x.user_id = ret.target
    /\ \E x \in ret.pre.reviews : x.user_id = ret.target
    /\ \E x \in ret.pre.ratings : x.user_id = ret.target
    /\ \E x \in db.recipes : x.user_id = NULL
    /\ \E x \in db.reviews : x.user_id = NULL
    /\ Cardinality(db.ratings) < Cardinality(ret.pre.ratings)

\* C13 as stated (refuted by the code): a request through requireAuth sent
\* with the session of a user on whom a ban has run to its end (the row is
\* flagged is_banned, no admin request is in flight) destroys that session
\* and does not run the protected handler.
C13_AsStated ==
    (ret.op = "count" /\ ret.hadSession /\ ret.banned) =>
        /\ ~ret.ran
        /\ ret.destroyed
        /\ sess[ret.user] = NoSession

(* ------------------------------- C14 --------------------------------- *)
\* the notification rows a step writes
NewNotifications == db'.notifications \ db.notifications

\* C14 as stated: in no request does a handler write a notification row
\* whose owner is the user who issued the request
C14_AsStated ==
    [][\A r \in Calls : (req[r] # Idle /\ req'[r] # req[r]) =>
          \A n \in NewNotifications : n.user_id # req[r].user.id]_vars

\* C14: the rating and the review handler never write a notification for
\* the user who issued the request, and the only notification a requester
\* gets for their own request is the one POST /recipes/create writes, which
\* always goes to the requester
C14_SelfNotificationOnlyOnCreate ==
    [][\A r \in Calls : (req[r] # Idle /\ req'[r] # req[r]) =>
          \A n \in NewNotifications :
              (n.user_id = req[r].user.id) <=> (req[r].h = "create")]_vars

\* a recipe was created and its author holds the notification about it
C14_Witness ==
    /\ ret.op = "create" /\ ret.status = "302 redirect"
    /\ \E n \in db.notifications :
          n.user_id = ret.user /\ n.link = createLink(ret.recipeId)

(* ------------------------------- C15 --------------------------------- *)
\* the notifications a request served by connection c reads
Seen(c) == View(c).notifications

\* C15 as stated: whatever the operations, a notification that was read
\* never becomes unread again, its owner and text never change, and it
\* disappears only while the admin deletes its owning user
C15_AsStated ==
    [][\A c \in Conns : \A n \in Seen(c) :
          /\ \A n2 \in Seen(c)' : n2.id = n.id =>
                /\ n2.user_id = n.user_id /\ n2.text = n.text
                /\ n.is_read => n2.is_read
          /\ (\A n2 \in Seen(c)' : n2.id # n.id) =>
                adm.h = "delete" /\ adm.target = n.user_id
      ]_vars

(* ------------------------------- C16 --------------------------------- *)
\* the review rows a step writes
NewReviews == db'.reviews \ db.reviews

\* C16 as stated: every review row the review handler inserts names its
\* author in exactly one way: user_id set and author_name null, or user_id
\* null and a non-empty author_name
C16_AsStated ==
    [][\A x \in NewReviews :
          \/ x.user_id # NULL /\ x.author_name = NullName
          \/ x.user_id = NULL /\ x.author_name \notin {NullName, <<"">>}
      ]_vars

(* ------------------------------- C17 --------------------------------- *)
\* C17: no step of the review handler writes a notification for the user
\* who sent the review; when that user owns the reviewed recipe no step of
\* the request writes a notification at all, and the successful answer
\* finds the review row stored
C17_ReviewSelfExclusion ==
    [][\A r \in Calls : (req[r].h = "review" /\ req'[r] # req[r]) =>
          /\ \A n \in NewNotifications : n.user_id # req[r].user.id
          /\ (req[r].user # NoSession /\ req[r].recipe.user_id = req[r].user.id) =>
                /\ NewNotifications = {}
                /\ (ret'.op = "review" /\ ret'.status = "200 success") =>
                      \E x \in db'.reviews :
                          /\ x.id = ret'.reviewId
                          /\ x.recipe_id = ret'.recipeId
                          /\ x.user_id = ret'.user
      ]_vars

\* the owner's review of their own recipe was answered with success: the
\* row is there and nobody was notified
C17_Witness ==
    /\ ret.op = "review" /\ ret.status = "200 success" /\ ret.user # NULL
    /\ \E x \in db.recipes : x.id = ret.recipeId /\ x.user_id = ret.user
    /\ \E x \in db.reviews : x.id = ret.reviewId /\ x.user_id = ret.user
    /\ db.notifications = {}

(* ------------------------------- C18 --------------------------------- *)
\* C18 as stated: a rating submission is answered 'already rated' only when
\* a ratings row of its (recipe, user) pair exists; every other failure of
\* the INSERT gets a different answer
C18_AsStated ==
    [][\A r \in Reqs :
          (/\ req[r].h = "rating" /\ req'[r] # req[r]
           /\ ret'.op = "rating" /\ ret'.status = "400 already rated")
              => PairRows(db, req[r].recipeId, req[r].user.id) # {}
      ]_vars

(* ------------------------------- C20 --------------------------------- *)
\* C20: the rating handler attempts the notification only once the rating
\* row is stored; whether or not the notification gets written (storage
\* fault, owner gone), the attempt leaves the ratings untouched, writes at
\* most the one notification for the recipe's owner, and the request ends
\* with the redirect
C20_NotificationBestEffort ==
    /\ [](\A r \in Reqs :
            (req[r].h = "rating" /\ req[r].pc = "notify")
                => PairRows(db, req[r].recipeId, req[r].user.id) # {})
    /\ [][\A r \in Reqs :
            (req[r].h = "rating" /\ req[r].pc = "notify" /\ req'[r] # req[r]) =>
                /\ db'.ratings = db.ratings
                /\ req'[r] = Idle
                /\ ret'.op = "rating" /\ ret'.status = "302 redirect"
                /\ Cardinality(NewNotifications) <= 1
                /\ \A n \in NewNotifications : n.user_id = req[r].recipe.user_id
       ]_vars

\* a rating of the recipe whose owner is gone was answered with the
\* redirect: the row is stored and no notification exists
C20_Witness ==
    /\ ret.op = "rating" /\ ret.status = "302 redirect"
    /\ ret.recipeId = AnonRecipe.id
    /\ PairRows(db, ret.recipeId, ret.user) # {}
    /\ db.notifications = {}

(* ------------------------------- C19 --------------------------------- *)
\* C19: a read that hits a storage fault (it logs the error) answers with
\* its default and raises nothing: getUnreadCount gives 0 and
\* getUserNotifications gives the empty list; the locals middleware calls
\* next() on every request, with notificationCount 0 where the count faulted
\* and notifications [] where the list faulted, and the notifications page
\* is rendered, with the empty list when its read faulted
C19_ReadsDegrade ==
    /\ (ret.op = "getUnreadCount" /\ ret.logged) => ret.value = 0
    /\ ret.op = "locals" =>
          /\ ret.next
          /\ ret.countLogged => ret.notificationCount = 0
          /\ ret.listLogged => ret.notifications = <<>>
    /\ ret.op = "notificationsPage" =>
          /\ ret.status = "rendered"
          /\ ret.listLogged => ret.notifications = <<>>

\* a user with an unread notification was served while both reads of the
\* middleware faulted
C19_Witness ==
    /\ ret.op = "locals" /\ ret.next /\ ret.countLogged /\ ret.listLogged
    /\ ret.notificationCount = 0 /\ ret.notifications = <<>>
    /\ UnreadRows(db, ret.user) # {}

(* ------------------------------- C21 --------------------------------- *)
\* C21 as stated: every sendNotification / sendEmailNotification call
\* eventually returns to its caller, even when the transport never answers
\* the send
C21_AsStated ==
    \A r \in Calls : (req[r] # Idle) ~> (req[r] = Idle)

(* ------------------------------- C22 --------------------------------- *)
\* the order of the statements as the claim gives it
ClaimedOrder ==
    << <<"recipe_steps", "recipe_id">>, <<"recipe_categories", "recipe_id">>,
       <<"ratings", "recipe_id">>, <<"reviews", "recipe_id">>,
       <<"recipes", "user_id">>, <<"ratings", "user_id">>,
       <<"reviews", "user_id">>, <<"notifications", "user_id">>,
       <<"users", "id">> >>

\* the place of the statement the cascade is about to run in that order
Phase(q) == CHOOSE p \in 1..Len(ClaimedOrder) : ClaimedOrder[p] = DeleteKind(q)

\* a DELETE of the cascade has just run and the handler goes on
CascadeStepped ==
    /\ adm.h = "delete" /\ adm.pc = "statement"
    /\ adm' # adm /\ adm'.pc # "rollback"

\* C22 as stated: whatever the number of recipes of the user, the DELETEs
\* run in the strict order steps, category links, ratings by recipe,
\* reviews by recipe, recipes, ratings by user, reviews by user,
\* notifications, user
C22_AsStated ==
    [][CascadeStepped =>
          IF adm'.pc = "statement" THEN Phase(adm) < Phase(adm')
          ELSE Phase(adm) = Len(ClaimedOrder)]_vars

\* C22: the cascade starts with the steps of the user's first recipe (with
\* the recipes themselves when the user has none); for one recipe after the
\* other it deletes steps, category links, ratings and reviews of that
\* recipe, in this order; after the last recipe it deletes the user's
\* recipes, ratings, reviews, notifications and last the user row, and only
\* then commits
C22_CascadeOrder ==
    /\ [](adm.h = "delete" /\ adm.pc = "statement" /\ adm.done = 0
            => Phase(adm) = IF adm.todo # <<>> THEN 1 ELSE 5)
    /\ [][CascadeStepped =>
            IF adm'.pc = "statement"
            THEN \/ /\ Phase(adm') = Phase(adm) + 1
                    /\ Phase(adm) < 4 => adm'.todo = adm.todo
                    /\ Phase(adm) = 4 => adm.todo = <<Head(adm.todo)>>
                 \/ /\ Phase(adm) = 4 /\ Phase(adm') = 1
                    /\ adm'.todo = Tail(adm.todo)
            ELSE adm'.pc = "commit" /\ Phase(adm) = Len(ClaimedOrder)
       ]_vars

\* the user who owned two recipes was deleted: thirteen DELETEs have run
C22_Witness ==
    /\ ret.op = "delete" /\ ret.status = "deleted"
    /\ Cardinality({x \in ret.pre.recipes : x.user_id = ret.target}) = 2
    /\ ret.done = 2 * Len(RecipeSteps) + Len(UserSteps)

(* ------------------------------- C23 --------------------------------- *)
\* C23 as stated: however two registrations with the same login or email
\* interleave, no two user rows share a login or an email, and a request
\* that finds the login or email taken is answered with the 'already
\* exists' message, not with the generic registration error (a request cut
\* short by a storage fault aside)
C23_AsStated ==
    /\ [](\A u, w \in db.users :
            (u.login = w.login \/ (u.email = w.email /\ u.email # NoEmail)) => u = w)
    /\ [][\A r \in Reqs :
            (/\ req[r].h = "register" /\ req'[r] = Idle
             /\ ret'.logged # "fault"
             /\ UserIsDuplicate(db, req[r].login, req[r].email))
                => ret'.status = "exists"
       ]_vars

(* ------------------------------- C24 --------------------------------- *)
\* C24 as stated: a ban that fails in the middle of its cascade is rolled
\* back entirely: when the failure message is rendered, the banned flag,
\* the recipes, the ratings and the reviews are as they were before the
\* request
C24_AsStated ==
    (ret.op = "ban" /\ ret.status = "error") => db = ret.pre

=============================================================================
